---- MODULE Spec2Model ----
(***************************************************************************)
(* Novum composite chain (pkg/composite/composite.go, first definition of  *)
(* NovumComposite[T, Deps]): Return, Bind, WithEffect, WithContract, Run.  *)
(*                                                                         *)
(* A chain is the record of the struct's six fields.  One chain-building   *)
(* expression is modelled: the register m holds the chain the expression   *)
(* has built so far, every action applies one method to it.  Go func       *)
(* values are modelled by what they compute:                               *)
(*   contractFn  - the name of a predicate, evaluated by Holds;            *)
(*   stateFn     - a closure tree, evaluated by ApplyStateFn;              *)
(*   effects     - the slice's contents, a sequence of effect names (the   *)
(*                 effects are never executed by the chain); m is the only *)
(*                 chain kept, so no two live chains share a backing array *)
(*                 here;                                                   *)
(*   err         - the chain of wrapped messages, <<>> for nil.            *)
(***************************************************************************)
EXTENDS Integers, Sequences, FiniteSets, TLC

VARIABLES
    m,         \* the chain built so far (the receiver of the next method)
    prev,      \* the receiver of the last method call
    last,      \* the last method call: what was called and what it did
    out,       \* <<r>> right after a Run (the tuple it returned), else <<>>
    nops,      \* number of method calls made on the chain
    ncalls,    \* number of step functions invoked by Bind so far
    deps0,     \* the deps given to the initial Return
    v0,        \* the value given to the initial Return
    form,      \* shape of the expression so far, see FormAfterBind
    p0,        \* the contract attached right after Return (when form says so)
    declared,  \* effects declared so far by WithEffect and by successful Binds
    clean,     \* TRUE while every Bind so far combined (no failure path taken)
    transforms,\* stateFn of the step chains of the combined Binds, in call order
    steps,     \* the steps f1..fk of Return(..).WithContract(p).Bind(f1)...Bind(fk)
               \* (empty while the expression has another form)
    runs,      \* the Runs made since the last other call, newest first
    stdout     \* lines printed by log effects that were executed

chainVars == <<m, prev, last, out, nops, ncalls, deps0, v0, form, p0, declared,
               clean, transforms, steps, runs, stdout>>

\* Two chains derived from one receiver: effect queues as Go slices.
VARIABLES
    arrays,    \* the backing arrays allocated by append, in allocation order
    base,      \* the chain c, its effects a slice header
    derived1,  \* the first chain derived from c, <<>> before that
    derived2,  \* the second chain derived from c, <<>> before that
    before,    \* effects Run returned for c and derived1 before derived2 was made
    nbase      \* number of calls that built c

aliasVars == <<arrays, base, derived1, derived2, before, nbase>>

\* Futures (pkg/future).
VARIABLES
    fut,       \* per future: the producing goroutine and the two channels
    awaits     \* the Await calls issued so far, in the order of the calls

futVars == <<fut, awaits>>

\* Parallel (pkg/composite): one call of Parallel(comps) and the Run of the
\* chain it returns.
VARIABLES
    comps,     \* the child chains handed to Parallel
    task,      \* per child: the goroutine running it and its local variables
    errCh,     \* channel of the children's errors, capacity n
    effCh,     \* channel of the children's effect queues, capacity n
    results,   \* the slice the goroutines write their values to
    slots,     \* per element of results: the writes made to it, in order
    wg,        \* counter of the WaitGroup
    pmain,     \* position of the goroutine that called Parallel
    merged,    \* <<locals of the merge>> once Parallel has merged, else <<>>
    pchain,    \* <<chain>> once Parallel has returned it, else <<>>
    pout       \* <<initial state, results>> of a Run of that chain, else <<>>

parVars == <<comps, task, errCh, effCh, results, slots, wg, pmain, merged,
             pchain, pout>>

\* Module registry (pkg/module): one Container shared by concurrent callers.
VARIABLES
    modules,   \* the map of the Container: per key, the entry stored (if any)
    mu,        \* the RWMutex: the call holding it for writing, the calls reading
    calls,     \* the Register and Resolve calls issued so far, in call order
    completed  \* per key, the entry of the Register that returned last

regVars == <<modules, mu, calls, completed>>

\* Pattern matching (pkg/patternmatch): environments are heap objects linked
\* by parent pointers; a pointer is an index into envs, 0 is nil.
VARIABLES
    envs,      \* the Env objects allocated so far, in allocation order
    scope,     \* the environment the caller holds (a pointer)
    mcall      \* <<the Match call made and what it returned>>, <<>> before it

matchVars == <<envs, scope, mcall>>

libVars == <<regVars, matchVars>>

vars == <<chainVars, aliasVars, futVars, parVars, libVars>>

----------------------------------------------------------------------------
(* Bounds *)

\* Number of method calls (Bind, WithEffect, WithContract, Run) after Return.
MaxOps == 4

\* Calls that build the chain c before chains are derived from it.
MaxBase == 3

\* Futures created with NewFuture.
MaxFutures == 2

\* Await calls issued, over all futures.
MaxAwaits == 2

\* Child chains in the batch handed to Parallel.
MaxChildren == 3

\* Runs of the chain Parallel returned, after the first.
MaxReruns == 2

\* Register and Resolve calls issued on the Container.
MaxCalls == 3

\* Env objects the caller allocates (NewEnv and Extend) before it matches.
MaxEnvs == 3

----------------------------------------------------------------------------
(* Data *)

\* Initial values of the examples: 10 (part_001:52) and a negative one.
InitValues == {10, -1}

\* The dependency context given to the initial Return, and another one a step
\* may construct its own chain with.
DepsSet == {"depsA"}

OtherDeps(d) == IF d = "depsA" THEN "depsB" ELSE "depsA"

\* Initial counters handed to Run.
InitCounters == {0, 3}

\* Effects the caller attaches with WithEffect.
CallerEffects == {"caller log"}

\* Contract predicates the caller attaches with WithContract.
Contracts == {"true", "nonneg", "false"}

\* The always-true predicate Return installs.
AlwaysTrue == "true"

\* Evaluation of a contract predicate on a value.
Holds(p, v) ==
    CASE p = "true" -> TRUE
      [] p = "nonneg" -> v >= 0
      [] p = "false" -> FALSE
      [] p = "nonnull" -> ~v.isnil

\* error values: nil, errors.New(msg), fmt.Errorf("error in Bind: %w", e)
NoErr == <<>>

ErrBeforeBind == <<"contract violation before Bind: invalid value">>

ErrFinal == <<"final contract violation">>

WrapBindErr(e) == <<"error in Bind">> \o e

\* state.StateLayer[int]
NewStateLayer(initial) == [Counter |-> initial]

Increment(s) == [Counter |-> s.Counter + 1]

\* Closure trees for stateFn.
IdentityFn == [op |-> "id"]

IncrementFn == [op |-> "inc"]

ResetFn == [op |-> "reset"]

ComposeFn(first, second) == [op |-> "compose", first |-> first, second |-> second]

RECURSIVE ApplyStateFn(_, _)
ApplyStateFn(fn, s) ==
    CASE fn.op = "id" -> s
      [] fn.op = "inc" -> Increment(s)
      [] fn.op = "reset" -> NewStateLayer(0)
      [] fn.op = "compose" -> ApplyStateFn(fn.second, ApplyStateFn(fn.first, s))

Add(a, b) == a + b

Multiply(a, b) == a * b

----------------------------------------------------------------------------
(* The chain methods *)

\* Variant: Return installs a counting state transform.
ReturnCounting(value, deps) ==
    [value      |-> value,
     deps       |-> deps,
     stateFn    |-> IncrementFn,
     effects    |-> <<>>,
     contractFn |-> AlwaysTrue,
     err        |-> NoErr]

\* Variant: Return installs the non-negative contract of the examples.
ReturnGuarded(value, deps) ==
    [value      |-> value,
     stateFn    |-> IdentityFn,
     effects    |-> <<>>,
     contractFn |-> "nonneg",
     err        |-> NoErr,
     deps       |-> deps]

Return(value, deps) ==
    [value      |-> value,
     stateFn    |-> IdentityFn,
     effects    |-> <<>>,
     contractFn |-> AlwaysTrue,
     err        |-> NoErr,
     deps       |-> deps]

\* Variant: a chain carrying a terminal error takes no more effects.
WithEffectUnlessFailed(c, e) ==
    IF c.err # NoErr THEN c ELSE [c EXCEPT !.effects = Append(c.effects, e)]

WithEffect(c, e) == [c EXCEPT !.effects = Append(c.effects, e)]

\* Variant: a contract that rejects every value cannot be replaced.
WithContractSticky(c, fn) ==
    IF c.contractFn = "false" THEN c ELSE [c EXCEPT !.contractFn = fn]

\* Variant: the new contract is checked at once and a violation recorded.
WithContractEager(c, fn) ==
    IF Holds(fn, c.value) THEN [c EXCEPT !.contractFn = fn]
    ELSE [c EXCEPT !.contractFn = fn, !.err = ErrBeforeBind]

WithContract(c, fn) == [c EXCEPT !.contractFn = fn]


\* Variant: the short-circuit on a terminal error is missing.
HasTerminalErrIgnored(c) == FALSE

\* Bind, line 57: the receiver already carries a terminal error.
HasTerminalErr(c) == c.err # NoErr

\* Variant: Bind does not check the contract before calling the step.
ContractFailsUnchecked(c) == FALSE

\* Bind, line 60: the current contract rejects the current value.
ContractFails(c) == ~Holds(c.contractFn, c.value)

\* Variant: the violation is not recorded in the chain.
BindViolationUnrecorded(c) == c

\* Bind, lines 61-62: the receiver with the before-bind violation set.
BindViolation(c) == [c EXCEPT !.err = ErrBeforeBind]

\* Variant: the failed step's value and contract are carried forward.
BindStepFailedAdvancing(c, next) ==
    [c EXCEPT !.err = WrapBindErr(next.err), !.value = next.value,
              !.contractFn = next.contractFn]

\* Bind, lines 65-68: the step's chain carries an error; the receiver with the
\* wrapped error set.
BindStepFailed(c, next) == [c EXCEPT !.err = WrapBindErr(next.err)]

\* Variant: the step chain's transform is applied first.
CombinedStateFnSwapped(c, next) == ComposeFn(next.stateFn, c.stateFn)

\* Bind, lines 69-71.
CombinedStateFn(c, next) == ComposeFn(c.stateFn, next.stateFn)

\* Variant: the step chain's effects are put first.
CombinedEffectsSwapped(c, next) == next.effects \o c.effects

\* Bind, line 72.
CombinedEffects(c, next) == c.effects \o next.effects

\* Variant: the receiver's contract is kept instead of the step chain's.
BindCombineKeepingContract(c, next) ==
    [value      |-> next.value,
     stateFn    |-> CombinedStateFn(c, next),
     effects    |-> CombinedEffects(c, next),
     contractFn |-> c.contractFn,
     err        |-> c.err,
     deps       |-> c.deps]

\* Variant: the value of the receiver is kept.
BindCombineKeepingValue(c, next) ==
    [value      |-> c.value,
     stateFn    |-> CombinedStateFn(c, next),
     effects    |-> CombinedEffects(c, next),
     contractFn |-> next.contractFn,
     err        |-> c.err,
     deps       |-> c.deps]

\* Variant: the step chain's deps are threaded forward.
BindCombineNextDeps(c, next) ==
    [value      |-> next.value,
     stateFn    |-> CombinedStateFn(c, next),
     effects    |-> CombinedEffects(c, next),
     contractFn |-> next.contractFn,
     err        |-> c.err,
     deps       |-> next.deps]

\* Bind, lines 73-80.
BindCombine(c, next) ==
    [value      |-> next.value,
     stateFn    |-> CombinedStateFn(c, next),
     effects    |-> CombinedEffects(c, next),
     contractFn |-> next.contractFn,
     err        |-> c.err,
     deps       |-> c.deps]

----------------------------------------------------------------------------
(* Step functions passed to Bind *)

\* What a step computes from the value it is given.
\* var zero T, for T = int
Zero == 0

\* The text of an error, err.Error(): a wrapped error prints its prefix, a
\* colon and the text of the error it wraps.
RECURSIVE ErrText(_)
ErrText(e) == IF Len(e) = 1 THEN e[1] ELSE e[1] \o ": " \o ErrText(Tail(e))

\* fmt.Sprintf("Future error: %v", err)
FutureErrorLog(e) == "Future error: " \o ErrText(e)

\* The summary effect of Parallel, lines 163-168.
ParallelSummaryAlwaysSuccess(e) == "Parallel composite executed successfully"

ParallelSummary(e) ==
    IF e # NoErr THEN "Parallel composite error: " \o ErrText(e)
    ELSE "Parallel composite executed successfully"

StepFns == {"AddTen", "MulTwo", "SubTwenty"}

NewValue(fn, n) ==
    CASE fn = "AddTen" -> Add(n, 10)
      [] fn = "MulTwo" -> Multiply(n, 2)
      [] fn = "SubTwenty" -> Add(n, -20)
      [] fn = "MulThree" -> Multiply(n, 3)

\* The log effect a step attaches.
StepEffect(fn) ==
    CASE fn = "AddTen" -> "Added 10 to the value"
      [] fn = "MulTwo" -> "Multiplied the value by 2"
      [] fn = "SubTwenty" -> "Subtracted 20 from the value"
      [] fn = "MulThree" -> "Future result multiplied by 3"

\* How a step builds the chain it returns, with the public methods only:
\*   plain     Return(newValue, deps).WithEffect(log)
\*   guarded   Return(newValue, deps).WithContract(nonneg)
\*                 .WithEffect(log).WithEffect(extra)
\*   rebind    Return(newValue, otherDeps)
\*   failed    Return(newValue, otherDeps).WithContract(false).WithEffect(log).Bind(g):
\*             the inner Bind takes its violation branch, g is not run
PublicShapes == {"plain", "guarded", "rebind", "failed"}

\* Chains only code inside the package can build (struct literals with a
\* stateFn of their own): Increment, and a reset to NewStateLayer(0).
PkgShapes == {"inc", "reset"}

PublicSteps == [fn : StepFns, shape : PublicShapes]

PkgSteps == [fn : {"AddTen"}, shape : PkgShapes]

\* The chain step f returns when called as f(n, deps).
StepChain(f, n, deps) ==
    LET nv  == NewValue(f.fn, n)
        log == StepEffect(f.fn)
    IN CASE f.shape = "plain"   -> WithEffect(Return(nv, deps), log)
         [] f.shape = "guarded" ->
               WithEffect(WithEffect(WithContract(Return(nv, deps), "nonneg"), log),
                          "extra")
         [] f.shape = "rebind"  -> Return(nv, OtherDeps(deps))
         [] f.shape = "failed"  ->
               BindViolation(WithEffect(WithContract(Return(nv, OtherDeps(deps)),
                                                     "false"), log))
         [] f.shape = "inc"     ->
               [WithEffect(Return(nv, deps), log) EXCEPT !.stateFn = IncrementFn]
         [] f.shape = "reset"   ->
               [WithEffect(Return(nv, deps), log) EXCEPT !.stateFn = ResetFn]
         [] f.shape = "parallel" ->
               \* the function Parallel passes to Bind, once it has merged
               WithEffect(Return(f.results, deps), ParallelSummary(f.firstErr))
         [] f.shape = "future"  ->
               \* the function FromFuture passes to Bind; f.ret is what
               \* f.Await() returned
               IF f.ret.err # NoErr
               THEN WithEffect(WithContract(Return(Zero, deps), "false"),
                               FutureErrorLog(f.ret.err))
               ELSE Return(f.ret.res, deps)

----------------------------------------------------------------------------
(* Bind and Run *)

\* c.Bind(f): the chain returned, whether the contract predicate was
\* evaluated, whether f was invoked, with which arguments, and the chain f
\* returned.
Bind(c, f) ==
    IF HasTerminalErr(c)
    THEN [chain |-> c, evaluated |-> FALSE, invoked |-> FALSE, arg |-> <<>>,
          next |-> <<>>]
    ELSE IF ContractFails(c)
    THEN [chain |-> BindViolation(c), evaluated |-> TRUE, invoked |-> FALSE,
          arg |-> <<>>, next |-> <<>>]
    ELSE LET next == StepChain(f, c.value, c.deps)
             arg  == <<[value |-> c.value, deps |-> c.deps]>>
         IN IF next.err # NoErr
            THEN [chain |-> BindStepFailed(c, next), evaluated |-> TRUE,
                  invoked |-> TRUE, arg |-> arg, next |-> <<next>>]
            ELSE [chain |-> BindCombine(c, next), evaluated |-> TRUE,
                  invoked |-> TRUE, arg |-> arg, next |-> <<next>>]

\* Variant: Run has a pointer receiver and records the violation it reports.
RunReceiverRecording(c) ==
    IF ~Holds(c.contractFn, c.value) THEN [c EXCEPT !.err = ErrFinal] ELSE c

\* Run, line 97: the receiver is passed by value and no field is assigned; the
\* caller's chain after the call.
RunReceiver(c) == c

\* Variant: Run reports a terminal error in preference to the contract check.
RunTerminalErrFirst(c, initialState) ==
    LET finalState == ApplyStateFn(c.stateFn, initialState)
    IN [value |-> c.value, state |-> finalState, effects |-> c.effects,
        err |-> IF c.err # NoErr THEN c.err
                ELSE IF ~Holds(c.contractFn, c.value) THEN ErrFinal ELSE NoErr]

\* c.Run(initialState): the four values returned.
Run(c, initialState) ==
    LET finalState == ApplyStateFn(c.stateFn, initialState)
    IN IF ~Holds(c.contractFn, c.value)
       THEN [value |-> c.value, state |-> finalState, effects |-> c.effects,
             err |-> ErrFinal]
       ELSE [value |-> c.value, state |-> finalState, effects |-> c.effects,
             err |-> c.err]

----------------------------------------------------------------------------
(* The expression being built *)

\* In FromFuture: "zero" after Return(zero, deps), "lifted" after the Bind
\* of FromFuture, "liftedbinds" after Binds on the chain FromFuture returned.
\* form: "fresh" after Return, "contracted" after Return(..).WithContract(p),
\* "firstbind" after Return(..).WithContract(p).Bind(f), "binds" after two or
\* more Binds on that, "other" otherwise.  Run does not change the form.
FormAfterBind ==
    CASE form = "contracted" -> "firstbind"
      [] form \in {"firstbind", "binds"} -> "binds"
      [] form = "zero" -> "lifted"
      [] form \in {"lifted", "liftedbinds"} -> "liftedbinds"
      [] form = "liftedcontract" -> "liftedcontractbind"
      [] OTHER -> "other"

\* "liftedcontract" after FromFuture(..).WithContract(q), "liftedcontractbind"
\* after one Bind on that.
FormAfterWithContract ==
    CASE form = "fresh" -> "contracted"
      [] form = "lifted" -> "liftedcontract"
      [] OTHER -> "other"

NoCall(op) == [op |-> op, evaluated |-> FALSE, invoked |-> FALSE, arg |-> <<>>,
               next |-> <<>>, step |-> <<>>, init |-> <<>>]

\* Run, line 99: the contract predicate is called on every Run.
RunEvaluatesContract(c) == TRUE

\* Lines the methods print: none of them calls an effect.
MethodOutput(op, e) == <<>>

\* A nil slice: no backing array.
NilSlice == [arr |-> 0, len |-> 0, cap |-> 0]

\* Return(value, deps) with its effects field as a slice header.
ReturnSlice(value, deps) == [Return(value, deps) EXCEPT !.effects = NilSlice]

\* No chain is being derived from another.
AliasIdle ==
    /\ arrays = <<>>
    /\ base = ReturnSlice(10, "depsA")
    /\ derived1 = <<>>
    /\ derived2 = <<>>
    /\ before = <<>>
    /\ nbase = 0

\* Parallel has not been called.
ParIdle ==
    /\ comps = <<>>
    /\ task = <<>>
    /\ errCh = <<>>
    /\ effCh = <<>>
    /\ results = <<>>
    /\ slots = <<>>
    /\ wg = 0
    /\ pmain = "idle"
    /\ merged = <<>>
    /\ pchain = <<>>
    /\ pout = <<>>

\* Keys and modules the callers of the Container use; Nil is the nil interface.
RegKeys == {"network", "storage"}

RegModules == {"moduleA", "moduleB"}

Nil == "nil"

\* mod, ok := c.modules[key] for a key the map does not hold.
NoEntry == [mod |-> Nil, ok |-> FALSE]

\* NewContainer(): an empty map and an unlocked mutex; nobody has called yet.
RegIdle ==
    /\ modules = [k \in RegKeys |-> NoEntry]
    /\ mu = [w |-> 0, r |-> {}]
    /\ calls = <<>>
    /\ completed = [k \in RegKeys |-> NoEntry]

\* No environment exists and no pattern has been matched.
MatchIdle ==
    /\ envs = <<>>
    /\ scope = 0
    /\ mcall = <<>>

LibIdle == RegIdle /\ MatchIdle

FutureIds == 1..MaxFutures

\* A future that NewFuture has not created yet.
NoFuture == [state |-> "absent", outcome |-> <<>>, pending |-> <<>>,
             resultChan |-> <<>>, errChan |-> <<>>,
             writes |-> [result |-> 0, err |-> 0],
             via |-> "NewFuture", src |-> 0, fn |-> "none", fncalled |-> FALSE]

\* No future exists.
FutIdle ==
    /\ fut = [f \in FutureIds |-> NoFuture]
    /\ awaits = <<>>

Init ==
    /\ v0 \in InitValues
    /\ deps0 \in DepsSet
    /\ m = Return(v0, deps0)
    /\ prev = m
    /\ last = NoCall("Return")
    /\ out = <<>>
    /\ nops = 0
    /\ ncalls = 0
    /\ form = "fresh"
    /\ p0 = AlwaysTrue
    /\ declared = <<>>
    /\ clean = TRUE
    /\ transforms = <<>>
    /\ steps = <<>>
    /\ runs = <<>>
    /\ stdout = <<>>
    /\ AliasIdle
    /\ FutIdle
    /\ ParIdle
    /\ LibIdle

\* m = m.Bind(f)
BindWith(f) ==
    LET r == Bind(m, f)
        combined == r.invoked /\ r.next[1].err = NoErr
    IN /\ nops < MaxOps
       /\ m' = r.chain
       /\ prev' = m
       /\ last' = [op |-> "Bind", evaluated |-> r.evaluated, invoked |-> r.invoked,
                   arg |-> r.arg, next |-> r.next, step |-> <<f>>, init |-> <<>>]
       /\ steps' = IF FormAfterBind = "other" THEN <<>> ELSE Append(steps, f)
       /\ runs' = <<>>
       /\ stdout' = stdout \o MethodOutput("Bind", f)
       /\ ncalls' = IF r.invoked THEN ncalls + 1 ELSE ncalls
       /\ nops' = nops + 1
       /\ form' = FormAfterBind
       /\ declared' = IF combined THEN declared \o r.next[1].effects ELSE declared
       /\ clean' = (clean /\ combined)
       /\ transforms' = IF combined THEN Append(transforms, r.next[1].stateFn)
                                    ELSE transforms
       /\ out' = <<>>
       /\ UNCHANGED <<deps0, v0, p0>>
       /\ UNCHANGED <<aliasVars, futVars, parVars, libVars>>

DoBind == \E f \in PublicSteps : BindWith(f)

DoBindPkg == \E f \in PkgSteps : BindWith(f)

\* m = m.WithEffect(e)
DoWithEffect ==
    \E e \in CallerEffects :
        /\ nops < MaxOps
        /\ m' = WithEffect(m, e)
        /\ prev' = m
        /\ last' = [NoCall("WithEffect") EXCEPT !.arg = <<e>>]
        /\ nops' = nops + 1
        /\ form' = "other"
        /\ declared' = Append(declared, e)
        /\ out' = <<>>
        /\ runs' = <<>>
        /\ stdout' = stdout \o MethodOutput("WithEffect", e)
        /\ steps' = <<>>
        /\ UNCHANGED <<ncalls, deps0, v0, p0, clean, transforms>>
        /\ UNCHANGED <<aliasVars, futVars, parVars, libVars>>

\* m = m.WithContract(fn)
DoWithContract ==
    \E fn \in Contracts :
        /\ nops < MaxOps
        /\ m' = WithContract(m, fn)
        /\ prev' = m
        /\ last' = [NoCall("WithContract") EXCEPT !.arg = <<fn>>]
        /\ nops' = nops + 1
        /\ form' = FormAfterWithContract
        /\ p0' = IF form \in {"fresh", "lifted"} THEN fn ELSE p0
        /\ out' = <<>>
        /\ runs' = <<>>
        /\ stdout' = stdout \o MethodOutput("WithContract", fn)
        /\ steps' = <<>>
        /\ UNCHANGED <<ncalls, deps0, v0, declared, clean, transforms>>
        /\ UNCHANGED <<aliasVars, futVars, parVars, libVars>>

\* m.Run(NewStateLayer(k))
DoRun ==
    \E k \in InitCounters :
        /\ nops < MaxOps
        /\ out' = <<Run(m, NewStateLayer(k))>>
        /\ m' = RunReceiver(m)
        /\ prev' = m
        /\ last' = [NoCall("Run") EXCEPT !.init = <<NewStateLayer(k)>>,
                                         !.evaluated = RunEvaluatesContract(m)]
        /\ nops' = nops + 1
        /\ runs' = <<[init |-> NewStateLayer(k), result |-> Run(m, NewStateLayer(k))]>>
                    \o runs
        /\ stdout' = stdout \o MethodOutput("Run", k)
        /\ UNCHANGED <<ncalls, deps0, v0, form, p0, declared, clean, transforms,
                       steps>>
        /\ UNCHANGED <<aliasVars, futVars, parVars, libVars>>

\* Callers outside the package: steps build their chains with the public methods.
Next == DoBind \/ DoWithEffect \/ DoWithContract \/ DoRun

Spec == Init /\ [][Next]_vars

\* Callers inside the package as well: a step may return a chain with a
\* stateFn of its own.
NextPkg == DoBind \/ DoBindPkg \/ DoWithEffect \/ DoWithContract \/ DoRun

SpecPkg == Init /\ [][NextPkg]_vars

-----------------------------------------------------------------------------
(* Chains derived from one receiver: m.effects is a slice, and the value
   receiver copies the slice header, not the backing array. *)

\* The zero value of an array element that no append has written.
NilEffect == "nil"

\* Effects the caller appends with WithEffect.
AliasEffects == CallerEffects \cup {"sibling log"}

\* Functions the caller passes to Bind.
AliasSteps == [fn : {"AddTen"}, shape : PublicShapes]

\* The elements s[0:len].
SliceContents(h, s) == IF s.arr = 0 THEN <<>> ELSE SubSeq(h[s.arr], 1, s.len)

\* Capacities of the allocator's size classes for pointer-sized elements.
SizeClassCaps == {1, 2, 3, 4, 6, 8, 10, 12, 14, 16}

\* Capacity of the array append allocates when needed > oldCap: the old
\* capacity doubled, or the needed length when that is larger, rounded up to
\* a size class.
GrowCap(oldCap, needed) ==
    LET doubled == 2 * oldCap
        want    == IF needed > doubled THEN needed ELSE doubled
    IN CHOOSE k \in SizeClassCaps :
           k >= want /\ \A j \in SizeClassCaps : j >= want => k <= j

\* append(s, xs...): in place when the capacity suffices, else into a new
\* array holding a copy of s[0:len].
AppendSlice(h, s, xs) ==
    LET needed == s.len + Len(xs)
    IN IF needed <= s.cap
       THEN [heap  |-> IF xs = <<>> THEN h
                       ELSE [h EXCEPT ![s.arr] =
                                [i \in 1..s.cap |->
                                    IF i > s.len /\ i <= needed
                                    THEN xs[i - s.len] ELSE @[i]]],
             slice |-> [s EXCEPT !.len = needed]]
       ELSE LET newCap == GrowCap(s.cap, needed)
                arr == [i \in 1..newCap |->
                           IF i <= s.len THEN h[s.arr][i]
                           ELSE IF i <= needed THEN xs[i - s.len]
                           ELSE NilEffect]
            IN [heap  |-> Append(h, arr),
                slice |-> [arr |-> Len(h) + 1, len |-> needed, cap |-> newCap]]

\* The chain with its effects read through the slice header.
Contents(h, ch) == [ch EXCEPT !.effects = SliceContents(h, ch.effects)]

\* ch.WithEffect(e), line 85.
WithEffectSlice(h, ch, e) ==
    LET a == AppendSlice(h, ch.effects, <<e>>)
    IN [heap |-> a.heap, chain |-> [ch EXCEPT !.effects = a.slice]]

\* ch.Bind(f): the three early returns hand back the receiver's slice header,
\* line 72 appends the step chain's effects to it.
BindSlice(h, ch, f) ==
    LET r == Bind(Contents(h, ch), f)
    IN IF ~r.invoked \/ r.next[1].err # NoErr
       THEN [heap |-> h, chain |-> [r.chain EXCEPT !.effects = ch.effects]]
       ELSE LET a == AppendSlice(h, ch.effects, r.next[1].effects)
            IN [heap |-> a.heap, chain |-> [r.chain EXCEPT !.effects = a.slice]]

\* The effects ch.Run returns, as the caller reads them.
RunEffects(h, ch) == Run(Contents(h, ch), NewStateLayer(0)).effects

\* The chain-building expression is not in use.
ChainIdle ==
    /\ v0 = 10
    /\ deps0 = "depsA"
    /\ m = Return(v0, deps0)
    /\ prev = m
    /\ last = NoCall("Return")
    /\ out = <<>>
    /\ nops = 0
    /\ ncalls = 0
    /\ form = "fresh"
    /\ p0 = AlwaysTrue
    /\ declared = <<>>
    /\ clean = TRUE
    /\ transforms = <<>>
    /\ steps = <<>>
    /\ runs = <<>>
    /\ stdout = <<>>

InitAlias == ChainIdle /\ AliasIdle /\ FutIdle /\ ParIdle /\ LibIdle

\* c = c.WithEffect(e) or c = c.Bind(f), while nothing is derived from c yet
Extend(r) ==
    /\ nbase < MaxBase
    /\ derived1 = <<>>
    /\ arrays' = r.heap
    /\ base' = r.chain
    /\ nbase' = nbase + 1
    /\ UNCHANGED <<derived1, derived2, before>>
    /\ UNCHANGED <<chainVars, futVars, parVars, libVars>>

ExtendWithEffect == \E e \in AliasEffects : Extend(WithEffectSlice(arrays, base, e))

ExtendBind == \E f \in AliasSteps : Extend(BindSlice(arrays, base, f))

\* d1 := c.op(..), then d2 := c.op(..); before the second the caller runs c
\* and d1 and keeps the effects returned.
Derive(r) ==
    /\ derived2 = <<>>
    /\ arrays' = r.heap
    /\ IF derived1 = <<>>
       THEN /\ derived1' = <<r.chain>>
            /\ before' = <<[base     |-> RunEffects(r.heap, base),
                            derived1 |-> RunEffects(r.heap, r.chain)]>>
            /\ UNCHANGED derived2
       ELSE /\ derived2' = <<r.chain>>
            /\ UNCHANGED <<derived1, before>>
    /\ UNCHANGED <<base, nbase>>
    /\ UNCHANGED <<chainVars, futVars, parVars, libVars>>

DeriveWithEffect == \E e \in AliasEffects : Derive(WithEffectSlice(arrays, base, e))

DeriveBind == \E f \in AliasSteps : Derive(BindSlice(arrays, base, f))

NextAlias == ExtendWithEffect \/ ExtendBind \/ DeriveWithEffect \/ DeriveBind

SpecAlias == InitAlias /\ [][NextAlias]_vars

-----------------------------------------------------------------------------
(* Futures: NewFuture starts a goroutine that calls fn and sends its outcome
   on one of two channels of capacity one; Await selects on both. *)

\* make(chan T, 1), make(chan error, 1)
ChanCap == 1

\* What fn may return: a value without error, or an error next to a value.
Outcomes == {[res |-> 42, err |-> NoErr],
             [res |-> 7,  err |-> <<"boom">>],
             [res |-> Zero, err |-> <<"boom">>]}

\* Variant: the return after the error send is missing.
ProducerWritesFallingThrough(o) ==
    IF o.err # NoErr
    THEN <<[ch |-> "err", item |-> o.err], [ch |-> "result", item |-> o.res]>>
    ELSE <<[ch |-> "result", item |-> o.res]>>

\* The sends the goroutine performs once fn has returned o, lines 19-23.
ProducerWrites(o) ==
    IF o.err # NoErr
    THEN <<[ch |-> "err", item |-> o.err]>>
    ELSE <<[ch |-> "result", item |-> o.res]>>

\* Variant: channels made without a buffer, no receiver standing by.
HasRoomUnbuffered(ch) == Len(ch) < 0

\* A send on a buffered channel proceeds while the buffer is not full.
HasRoom(ch) == Len(ch) < ChanCap

\* Variant: Await reads the item and leaves it in the channel.
SelectCasesPeeking(fu) ==
    {[ret |-> [res |-> fu.resultChan[1], err |-> NoErr],
      resultChan |-> fu.resultChan, errChan |-> fu.errChan] :
         x \in IF fu.resultChan # <<>> THEN {1} ELSE {}}
    \cup
    {[ret |-> [res |-> Zero, err |-> fu.errChan[1]],
      resultChan |-> fu.resultChan, errChan |-> fu.errChan] :
         x \in IF fu.errChan # <<>> THEN {1} ELSE {}}

\* Variant: the select has a default case returning the zero values.
SelectCasesWithDefault(fu) ==
    {[ret |-> [res |-> fu.resultChan[1], err |-> NoErr],
      resultChan |-> Tail(fu.resultChan), errChan |-> fu.errChan] :
         x \in IF fu.resultChan # <<>> THEN {1} ELSE {}}
    \cup
    {[ret |-> [res |-> Zero, err |-> fu.errChan[1]],
      resultChan |-> fu.resultChan, errChan |-> Tail(fu.errChan)] :
         x \in IF fu.errChan # <<>> THEN {1} ELSE {}}
    \cup
    {[ret |-> [res |-> Zero, err |-> NoErr],
      resultChan |-> fu.resultChan, errChan |-> fu.errChan] :
         x \in IF fu.resultChan = <<>> /\ fu.errChan = <<>> THEN {1} ELSE {}}

\* The cases of Await's select that can proceed, lines 30-36: what Await
\* returns and what is left in the channels.
SelectCases(fu) ==
    {[ret |-> [res |-> fu.resultChan[1], err |-> NoErr],
      resultChan |-> Tail(fu.resultChan), errChan |-> fu.errChan] :
         x \in IF fu.resultChan # <<>> THEN {1} ELSE {}}
    \cup
    {[ret |-> [res |-> Zero, err |-> fu.errChan[1]],
      resultChan |-> fu.resultChan, errChan |-> Tail(fu.errChan)] :
         x \in IF fu.errChan # <<>> THEN {1} ELSE {}}

\* The functions passed to future.Bind and future.Then in the model: one
\* that triples its argument, one that returns an error.
ApplyFn(fn, x) ==
    IF fn = "triple" THEN [res |-> Multiply(x, 3), err |-> NoErr]
    ELSE [res |-> x, err |-> <<"fn failed">>]

\* future.Bind(f, fn) and future.Then(f, g); Then wraps g into a function
\* that returns no error.
BindCalls == {[via |-> "Bind", fn |-> "triple"],
              [via |-> "Bind", fn |-> "fail"],
              [via |-> "Then", fn |-> "triple"]}

\* Variant: fn is applied to whatever Await returned, error or not.
BindOutcomeCallingFn(fn, ret) == ApplyFn(fn, ret.res)

\* What the function future.Bind hands to NewFuture returns once its Await
\* of the source has returned ret, lines 42-47.
BindOutcome(fn, ret) ==
    IF ret.err # NoErr THEN [res |-> Zero, err |-> ret.err]
    ELSE ApplyFn(fn, ret.res)

\* The producer goroutine of fu has sent on a channel.
HasWritten(fu) == fu.writes.result + fu.writes.err > 0

InitFuture == ChainIdle /\ AliasIdle /\ FutIdle /\ ParIdle /\ LibIdle

\* f := NewFuture(fn): the channels are made and the goroutine started.
NewFuture ==
    \E f \in FutureIds :
        /\ fut[f].state = "absent"
        /\ \A g \in FutureIds : g < f => fut[g].state # "absent"
        /\ fut' = [fut EXCEPT ![f].state = "running"]
        /\ UNCHANGED awaits
        /\ UNCHANGED <<chainVars, aliasVars, parVars, libVars>>

\* res, err := fn()
ProducerReturn(f) ==
    \E o \in Outcomes :
        /\ fut[f].state = "running"
        /\ fut[f].via = "NewFuture"
        /\ fut' = [fut EXCEPT ![f].state = "returned",
                              ![f].outcome = <<o>>,
                              ![f].pending = ProducerWrites(o)]
        /\ UNCHANGED awaits
        /\ UNCHANGED <<chainVars, aliasVars, parVars, libVars>>

\* f.errChan <- err; return   or   f.resultChan <- res
ProducerSend(f) ==
    /\ fut[f].state = "returned"
    /\ fut[f].pending # <<>>
    /\ LET w    == Head(fut[f].pending)
           rest == Tail(fut[f].pending)
           st   == IF rest = <<>> THEN "done" ELSE "returned"
       IN IF w.ch = "err"
          THEN /\ HasRoom(fut[f].errChan)
               /\ fut' = [fut EXCEPT ![f].errChan = Append(@, w.item),
                                     ![f].writes.err = @ + 1,
                                     ![f].pending = rest,
                                     ![f].state = st]
          ELSE /\ HasRoom(fut[f].resultChan)
               /\ fut' = [fut EXCEPT ![f].resultChan = Append(@, w.item),
                                     ![f].writes.result = @ + 1,
                                     ![f].pending = rest,
                                     ![f].state = st]
    /\ UNCHANGED awaits
    /\ UNCHANGED <<chainVars, aliasVars, parVars, libVars>>

\* g := future.Bind(f, fn) or future.Then(f, fn): NewFuture starts a
\* goroutine whose function awaits f.
BindFuture ==
    \E g \in FutureIds, f \in FutureIds, b \in BindCalls :
        /\ fut[g].state = "absent"
        /\ \A h \in FutureIds : h < g => fut[h].state # "absent"
        /\ fut[f].state # "absent"
        /\ fut' = [fut EXCEPT ![g] = [NoFuture EXCEPT !.state = "running",
                                                      !.via = b.via,
                                                      !.src = f,
                                                      !.fn = b.fn]]
        /\ UNCHANGED awaits
        /\ UNCHANGED <<chainVars, aliasVars, parVars, libVars>>

\* The goroutine of a future made by future.Bind enters f.Await(), line 42.
ProducerAwait(g) ==
    /\ fut[g].state = "running"
    /\ fut[g].via # "NewFuture"
    /\ \A i \in DOMAIN awaits : awaits[i].owner # g
    /\ Len(awaits) < MaxAwaits
    /\ awaits' = Append(awaits, [fut |-> fut[g].src, pc |-> "waiting",
                                 ret |-> <<>>,
                                 early |-> ~HasWritten(fut[fut[g].src]),
                                 by |-> "bind", owner |-> g])
    /\ UNCHANGED fut
    /\ UNCHANGED <<chainVars, aliasVars, parVars, libVars>>

\* The Await of the goroutine has returned: lines 43-47, and fn returns.
ProducerBindReturn(g) ==
    \E i \in DOMAIN awaits :
        /\ fut[g].state = "running"
        /\ awaits[i].owner = g
        /\ awaits[i].pc = "returned"
        /\ LET o == BindOutcome(fut[g].fn, awaits[i].ret[1])
           IN fut' = [fut EXCEPT ![g].state = "returned",
                                 ![g].outcome = <<o>>,
                                 ![g].pending = ProducerWrites(o),
                                 ![g].fncalled = (awaits[i].ret[1].err = NoErr)]
        /\ UNCHANGED awaits
        /\ UNCHANGED <<chainVars, aliasVars, parVars, libVars>>

\* A caller, or FromFuture on behalf of its caller, enters f.Await(); early
\* records that nothing was written yet.
AwaitCall ==
    \E f \in FutureIds, who \in {"caller", "adapter"} :
        /\ Len(awaits) < MaxAwaits
        /\ fut[f].state # "absent"
        /\ awaits' = Append(awaits, [fut |-> f, pc |-> "waiting", ret |-> <<>>,
                                     early |-> ~HasWritten(fut[f]),
                                     by |-> who, owner |-> 0])
        /\ UNCHANGED fut
        /\ UNCHANGED <<chainVars, aliasVars, parVars, libVars>>

\* The select of a pending Await receives from a channel and Await returns.
AwaitReceive ==
    \E i \in DOMAIN awaits :
        /\ awaits[i].pc = "waiting"
        /\ \E c \in SelectCases(fut[awaits[i].fut]) :
              /\ awaits' = [awaits EXCEPT ![i].pc = "returned",
                                          ![i].ret = <<c.ret>>]
              /\ fut' = [fut EXCEPT ![awaits[i].fut].resultChan = c.resultChan,
                                    ![awaits[i].fut].errChan = c.errChan]
        /\ UNCHANGED <<chainVars, aliasVars, parVars, libVars>>

NextFuture ==
    \/ NewFuture
    \/ BindFuture
    \/ \E f \in FutureIds : ProducerReturn(f)
    \/ \E f \in FutureIds : ProducerAwait(f)
    \/ \E f \in FutureIds : ProducerBindReturn(f)
    \/ \E f \in FutureIds : ProducerSend(f)
    \/ AwaitCall
    \/ AwaitReceive

SpecFuture == InitFuture /\ [][NextFuture]_vars

\* A goroutine that can send is scheduled; fn need not return and no caller
\* need ever call Await.
SpecFutureFair ==
    /\ InitFuture
    /\ [][NextFuture]_vars
    /\ \A f \in FutureIds : WF_vars(ProducerSend(f))

-----------------------------------------------------------------------------
(* FromFuture: Return(zero, deps).Bind(step), where the step awaits the
   future; the caller then goes on with the chain FromFuture returned. *)

\* Functions the caller binds after FromFuture.
LiftedSteps == [fn : {"MulThree"}, shape : PublicShapes]

\* FromFuture, line 113: Return(zero, deps), about to be bound.
InitAdapter ==
    /\ v0 = Zero
    /\ deps0 \in DepsSet
    /\ m = Return(v0, deps0)
    /\ prev = m
    /\ last = NoCall("Return")
    /\ out = <<>>
    /\ nops = 0
    /\ ncalls = 0
    /\ form = "zero"
    /\ p0 = AlwaysTrue
    /\ declared = <<>>
    /\ clean = TRUE
    /\ transforms = <<>>
    /\ steps = <<>>
    /\ runs = <<>>
    /\ stdout = <<>>
    /\ AliasIdle
    /\ FutIdle
    /\ ParIdle
    /\ LibIdle

\* fut := future.NewFuture(fn): the one future handed to FromFuture.
FirstFuture == fut[1].state = "absent" /\ NewFuture

\* The step function FromFuture binds, for the result ret of its Await.
FutureStep(ret) == [fn |-> "Await", shape |-> "future", ret |-> ret]

\* The Await inside FromFuture's step has returned: the Bind of line 113
\* completes and FromFuture returns.
DoFromFuture ==
    \E i \in DOMAIN awaits :
        /\ form = "zero"
        /\ awaits[i].by = "adapter"
        /\ awaits[i].pc = "returned"
        /\ BindWith(FutureStep(awaits[i].ret[1]))

\* Calls on the chain FromFuture returned.
LiftedBind == form # "zero" /\ \E f \in LiftedSteps : BindWith(f)

LiftedWithEffect == form # "zero" /\ DoWithEffect

LiftedRun == form # "zero" /\ DoRun

NextAdapter ==
    \/ FirstFuture
    \/ \E f \in FutureIds : ProducerReturn(f)
    \/ \E f \in FutureIds : ProducerSend(f)
    \/ AwaitCall
    \/ AwaitReceive
    \/ DoFromFuture
    \/ LiftedBind
    \/ LiftedWithEffect
    \/ LiftedRun

SpecAdapter == InitAdapter /\ [][NextAdapter]_vars

\* One call of FromFuture from its start: Bind invokes the step at once (the
\* contract of Return holds), the step calls f.Await() and goes on when it
\* returns; then any calls on the chain FromFuture returned.

\* res, err := f.Await() in the step, line 114.
StepAwait ==
    /\ form = "zero"
    /\ fut[1].state # "absent"
    /\ \A i \in DOMAIN awaits : awaits[i].by # "adapter"
    /\ awaits' = Append(awaits, [fut |-> 1, pc |-> "waiting", ret |-> <<>>,
                                 early |-> ~HasWritten(fut[1]),
                                 by |-> "adapter", owner |-> 0])
    /\ UNCHANGED fut
    /\ UNCHANGED <<chainVars, aliasVars, parVars, libVars>>

LiftedWithContract == form # "zero" /\ DoWithContract

NextLifted ==
    \/ FirstFuture
    \/ \E f \in FutureIds : ProducerReturn(f)
    \/ \E f \in FutureIds : ProducerSend(f)
    \/ StepAwait
    \/ AwaitReceive
    \/ DoFromFuture
    \/ LiftedBind
    \/ LiftedWithEffect
    \/ LiftedWithContract
    \/ LiftedRun

SpecLifted == InitAdapter /\ [][NextLifted]_vars

-----------------------------------------------------------------------------
(* Parallel: one goroutine per child runs the child and reports its error,
   its value and its effects; the caller waits for all of them and merges. *)

ChildIds == 1..MaxChildren

\* How the caller built a child: with Return and WithEffect as in main, with a
\* contract its value violates, with a Bind whose step failed, or (inside the
\* package) with a counting state transform.
ChildKinds == {"ok", "counting", "violates", "failedbind"}

ChildEffect(i) == "Parallel composite " \o ToString(i)

ChildChain(i, kind, deps) ==
    CASE kind = "ok" -> WithEffect(Return(i, deps), ChildEffect(i))
      [] kind = "counting" ->
            [WithEffect(WithEffect(Return(i + 10, deps), ChildEffect(i)), "counted")
                EXCEPT !.stateFn = IncrementFn]
      [] kind = "violates" ->
            WithEffect(WithContract(Return(0 - i, deps), "nonneg"), ChildEffect(i))
      [] kind = "failedbind" ->
            Bind(WithEffect(Return(i, deps), ChildEffect(i)),
                 [fn |-> "AddTen", shape |-> "failed"]).chain

\* A nil slice and a slice with elements, as values of a chain.
NilResults == [isnil |-> TRUE, elems |-> <<>>]

SliceOf(elems) == [isnil |-> FALSE, elems |-> elems]

\* Variant: every child goes on from the state the child before it ended in.
ChildStateChained(i, t) ==
    IF i > 1 /\ t[i - 1].pc # "start" THEN t[i - 1].final ELSE NewStateLayer(0)

\* The state a child is run with, line 144: st.NewStateLayer[int](0).
ChildState(i, t) == NewStateLayer(0)

\* Variant: every goroutine writes the first element.
TaskSlotFirst(i) == 1

\* The element of results goroutine i writes, line 146.
TaskSlot(i) == i

\* Variant: channels made without a buffer; nobody receives before the join.
ChanHasRoomUnbuffered(ch) == Len(ch) < 0

\* A send on errCh or effCh, made with capacity n = len(comps), lines 134-137.
ChanHasRoom(ch) == Len(ch) < Len(comps)

\* Variant: Wait returns while one goroutine is still running.
JoinReleasedEarly(counter) == counter <= 1

\* Variant: Wait does not wait.
JoinReleasedAtOnce(counter) == TRUE

\* wg.Wait() returns when the counter is zero.
JoinReleased(counter) == counter = 0

\* Lines 153-159: the first non-nil error received from errCh.
FirstErr(ch) ==
    IF \E k \in DOMAIN ch : ch[k] # NoErr
    THEN ch[CHOOSE k \in DOMAIN ch :
                /\ ch[k] # NoErr
                /\ \A j \in DOMAIN ch : ch[j] # NoErr => k <= j]
    ELSE NoErr

\* Lines 160-162: the effect queues received from effCh, appended in turn.
RECURSIVE TotalEffects(_)
TotalEffects(ch) == IF ch = <<>> THEN <<>> ELSE Head(ch) \o TotalEffects(Tail(ch))

\* The function Parallel passes to Bind, after its merge.
ParallelStep(r, e) ==
    [fn |-> "Parallel", shape |-> "parallel", results |-> r, firstErr |-> e]

\* Variant: the first error of the children becomes the chain's own error.
ParallelChainFailing(cs, r, e) ==
    [WithContract(Bind(Return(NilResults, cs[1].deps), ParallelStep(r, e)).chain,
                  "nonnull") EXCEPT !.err = e]

\* Lines 132-133 and 169-171:
\* Return(nil, comps[0].deps).Bind(step).WithContract(vals != nil)
ParallelChain(cs, r, e) ==
    WithContract(Bind(Return(NilResults, cs[1].deps), ParallelStep(r, e)).chain,
                 "nonnull")

\* Parallel(comps) has been called: lines 134-149, the goroutines are started.
InitParallel ==
    /\ ChainIdle /\ AliasIdle /\ FutIdle /\ LibIdle
    /\ \E kinds \in [ChildIds -> ChildKinds] :
          comps = [i \in ChildIds |-> ChildChain(i, kinds[i], "depsA")]
    /\ task = [i \in ChildIds |->
                 [pc |-> "start", res |-> Zero, effs |-> <<>>, err |-> NoErr,
                  init |-> <<>>, final |-> <<>>, nrun |-> 0]]
    /\ errCh = <<>>
    /\ effCh = <<>>
    /\ results = [i \in ChildIds |-> Zero]
    /\ slots = [i \in ChildIds |-> <<>>]
    /\ wg = MaxChildren
    /\ pmain = "waiting"
    /\ merged = <<>>
    /\ pchain = <<>>
    /\ pout = <<>>

\* res, _, effs, err := comp.Run(st.NewStateLayer[int](0)); errCh <- err
TaskRun(i) ==
    /\ task[i].pc = "start"
    /\ ChanHasRoom(errCh)
    /\ LET s0 == ChildState(i, task)
           r  == Run(comps[i], s0)
       IN /\ task' = [task EXCEPT ![i] = [pc |-> "reported", res |-> r.value,
                                          effs |-> r.effects, err |-> r.err,
                                          init |-> s0, final |-> r.state,
                                          nrun |-> task[i].nrun + 1]]
          /\ errCh' = Append(errCh, r.err)
    /\ UNCHANGED <<comps, effCh, results, slots, wg, pmain, merged, pchain, pout>>
    /\ UNCHANGED <<chainVars, aliasVars, futVars, libVars>>

\* results[i] = res
TaskWrite(i) ==
    /\ task[i].pc = "reported"
    /\ results' = [results EXCEPT ![TaskSlot(i)] = task[i].res]
    /\ slots' = [slots EXCEPT ![TaskSlot(i)] =
                    Append(@, [by |-> i, joined |-> pmain # "waiting"])]
    /\ task' = [task EXCEPT ![i].pc = "wrote"]
    /\ UNCHANGED <<comps, errCh, effCh, wg, pmain, merged, pchain, pout>>
    /\ UNCHANGED <<chainVars, aliasVars, futVars, libVars>>

\* effCh <- effs
TaskSend(i) ==
    /\ task[i].pc = "wrote"
    /\ ChanHasRoom(effCh)
    /\ effCh' = Append(effCh, task[i].effs)
    /\ task' = [task EXCEPT ![i].pc = "sent"]
    /\ UNCHANGED <<comps, errCh, results, slots, wg, pmain, merged, pchain, pout>>
    /\ UNCHANGED <<chainVars, aliasVars, futVars, libVars>>

\* defer wg.Done()
TaskDone(i) ==
    /\ task[i].pc = "sent"
    /\ wg' = wg - 1
    /\ task' = [task EXCEPT ![i].pc = "done"]
    /\ UNCHANGED <<comps, errCh, effCh, results, slots, pmain, merged, pchain, pout>>
    /\ UNCHANGED <<chainVars, aliasVars, futVars, libVars>>

\* wg.Wait() returns; close(errCh); close(effCh)
Join ==
    /\ pmain = "waiting"
    /\ JoinReleased(wg)
    /\ pmain' = "joined"
    /\ UNCHANGED <<comps, task, errCh, effCh, results, slots, wg, merged, pchain, pout>>
    /\ UNCHANGED <<chainVars, aliasVars, futVars, libVars>>

\* Lines 153-171: the channels are drained, the step returns its chain, Bind
\* combines it and Parallel returns the chain with its contract.
Merge ==
    /\ pmain = "joined"
    /\ LET e == FirstErr(errCh)
           r == SliceOf(results)
       IN /\ merged' = <<[firstErr |-> e, totalEffects |-> TotalEffects(effCh),
                          unfinished |-> {i \in DOMAIN task : task[i].pc # "done"}]>>
          /\ pchain' = <<ParallelChain(comps, r, e)>>
    /\ errCh' = <<>>
    /\ effCh' = <<>>
    /\ pmain' = "merged"
    /\ UNCHANGED <<comps, task, results, slots, wg, pout>>
    /\ UNCHANGED <<chainVars, aliasVars, futVars, libVars>>

\* The caller runs the chain Parallel returned.
ParallelRun ==
    \E k \in InitCounters :
        /\ pmain = "merged"
        /\ pout' = <<[init |-> NewStateLayer(k),
                      result |-> Run(pchain[1], NewStateLayer(k))]>>
        /\ pmain' = "ran"
        /\ UNCHANGED <<comps, task, errCh, effCh, results, slots, wg, merged, pchain>>
        /\ UNCHANGED <<chainVars, aliasVars, futVars, libVars>>

NextParallel ==
    \/ \E i \in ChildIds : TaskRun(i)
    \/ \E i \in ChildIds : TaskWrite(i)
    \/ \E i \in ChildIds : TaskSend(i)
    \/ \E i \in ChildIds : TaskDone(i)
    \/ Join
    \/ Merge
    \/ ParallelRun

SpecParallel == InitParallel /\ [][NextParallel]_vars

\* Every goroutine that can take a step is scheduled, and so is the caller.
SpecParallelFair ==
    /\ InitParallel
    /\ [][NextParallel]_vars
    /\ \A i \in ChildIds :
          WF_vars(TaskRun(i) \/ TaskWrite(i) \/ TaskSend(i) \/ TaskDone(i))
    /\ WF_vars(Join \/ Merge)

\* The call of Parallel itself, on a batch of any length, and any number of
\* Runs of the chain it returns.

\* The batches a caller may hand over: 0 to MaxChildren chains.
Batches ==
    {<<>>} \cup
    UNION {{[i \in 1..n |-> ChildChain(i, kinds[i], "depsA")] :
                kinds \in [1..n -> ChildKinds]} : n \in 1..MaxChildren}

\* Variant: the dependency context of an empty batch is read without a fault.
BatchFaultsNever(cs) == FALSE

\* Line 132, comps[0].deps: indexing an empty slice panics (index out of range).
BatchFaults(cs) == Len(cs) = 0

\* Parallel has not been called yet; comps is the batch it will be called with.
InitParallelCall ==
    /\ ChainIdle /\ AliasIdle /\ FutIdle /\ LibIdle
    /\ comps \in Batches
    /\ task = <<>>
    /\ errCh = <<>>
    /\ effCh = <<>>
    /\ results = <<>>
    /\ slots = <<>>
    /\ wg = 0
    /\ pmain = "idle"
    /\ merged = <<>>
    /\ pchain = <<>>
    /\ pout = <<>>

\* Parallel(comps) up to wg.Wait(): line 132, then Return(nil, deps).Bind calls
\* the step at once (the contract of Return holds), lines 134-149.
ParallelCall ==
    /\ pmain = "idle"
    /\ IF BatchFaults(comps)
       THEN /\ pmain' = "faulted"
            /\ UNCHANGED <<task, results, slots, wg>>
       ELSE /\ task' = [i \in DOMAIN comps |->
                          [pc |-> "start", res |-> Zero, effs |-> <<>>,
                           err |-> NoErr, init |-> <<>>, final |-> <<>>,
                           nrun |-> 0]]
            /\ results' = [i \in DOMAIN comps |-> Zero]
            /\ slots' = [i \in DOMAIN comps |-> <<>>]
            /\ wg' = Len(comps)
            /\ pmain' = "waiting"
    /\ UNCHANGED <<comps, errCh, effCh, merged, pchain, pout>>
    /\ UNCHANGED <<chainVars, aliasVars, futVars, libVars>>

\* The caller runs the chain once more.
ParallelRerun ==
    \E k \in InitCounters :
        /\ pmain = "ran"
        /\ pout' = <<[init |-> NewStateLayer(k),
                      result |-> Run(pchain[1], NewStateLayer(k))]>> \o pout
        /\ Len(pout) <= MaxReruns
        /\ UNCHANGED <<comps, task, errCh, effCh, results, slots, wg, pmain,
                       merged, pchain>>
        /\ UNCHANGED <<chainVars, aliasVars, futVars, libVars>>

NextParallelCall ==
    \/ ParallelCall
    \/ \E i \in DOMAIN task : TaskRun(i)
    \/ \E i \in DOMAIN task : TaskWrite(i)
    \/ \E i \in DOMAIN task : TaskSend(i)
    \/ \E i \in DOMAIN task : TaskDone(i)
    \/ Join
    \/ Merge
    \/ ParallelRun
    \/ ParallelRerun

SpecParallelCall == InitParallelCall /\ [][NextParallelCall]_vars

----------------------------------------------------------------------------
(* A caller outside the package: it builds a chain with Return and the
   methods, or lifts a future with FromFuture, or hands a batch to Parallel,
   and runs what it got. *)

InitPublic == Init \/ InitAdapter \/ (InitParallelCall /\ comps # <<>>)

NextPublic ==
    \/ (v0 # Zero /\ comps = <<>> /\ Next)
    \/ (v0 = Zero /\ NextLifted)
    \/ (comps # <<>> /\ NextParallelCall)

SpecPublic == InitPublic /\ [][NextPublic]_vars

----------------------------------------------------------------------------
(* Module registry: Register and Resolve of one Container, called from any
   number of goroutines.  Lock, the map access and the deferred Unlock are
   separate steps of a call. *)

\* Variant: RLock succeeds while a writer holds the mutex.
CanRLockAlways(mx) == TRUE

\* c.mu.RLock() returns when no call holds the mutex for writing.
CanRLock(mx) == mx.w = 0

\* c.mu.Lock() returns when no call holds the mutex at all.
CanLock(mx) == mx.w = 0 /\ mx.r = {}

\* c.modules[name] = module
MapStore(mp, k, v) == [mp EXCEPT ![k] = [mod |-> v, ok |-> TRUE]]

\* mod, ok := c.modules[name]
MapLoad(mp, k) == mp[k]

InitRegistry == ChainIdle /\ AliasIdle /\ FutIdle /\ ParIdle /\ RegIdle /\ MatchIdle

\* A goroutine calls c.Register(k, v) and reaches c.mu.Lock().
CallRegister ==
    \E k \in RegKeys, v \in RegModules :
        /\ Len(calls) < MaxCalls
        /\ calls' = Append(calls, [op |-> "Register", key |-> k, mod |-> v,
                                   pc |-> "lock", ret |-> NoEntry,
                                   expect |-> NoEntry])
        /\ UNCHANGED <<modules, mu, completed>>
        /\ UNCHANGED <<chainVars, aliasVars, futVars, parVars, matchVars>>

\* A goroutine calls c.Resolve(k) and reaches c.mu.RLock().
CallResolve ==
    \E k \in RegKeys :
        /\ Len(calls) < MaxCalls
        /\ calls' = Append(calls, [op |-> "Resolve", key |-> k, mod |-> Nil,
                                   pc |-> "rlock", ret |-> NoEntry,
                                   expect |-> NoEntry])
        /\ UNCHANGED <<modules, mu, completed>>
        /\ UNCHANGED <<chainVars, aliasVars, futVars, parVars, matchVars>>

\* c.mu.Lock()
Lock(i) ==
    /\ calls[i].pc = "lock"
    /\ CanLock(mu)
    /\ mu' = [mu EXCEPT !.w = i]
    /\ calls' = [calls EXCEPT ![i].pc = "write"]
    /\ UNCHANGED <<modules, completed>>
    /\ UNCHANGED <<chainVars, aliasVars, futVars, parVars, matchVars>>

\* c.modules[name] = module
Store(i) ==
    /\ calls[i].pc = "write"
    /\ modules' = MapStore(modules, calls[i].key, calls[i].mod)
    /\ calls' = [calls EXCEPT ![i].pc = "unlock"]
    /\ UNCHANGED <<mu, completed>>
    /\ UNCHANGED <<chainVars, aliasVars, futVars, parVars, matchVars>>

\* The deferred c.mu.Unlock(); Register returns.
Unlock(i) ==
    /\ calls[i].pc = "unlock"
    /\ mu' = [mu EXCEPT !.w = 0]
    /\ calls' = [calls EXCEPT ![i].pc = "done"]
    /\ completed' = [completed EXCEPT ![calls[i].key] =
                        [mod |-> calls[i].mod, ok |-> TRUE]]
    /\ UNCHANGED modules
    /\ UNCHANGED <<chainVars, aliasVars, futVars, parVars, matchVars>>

\* c.mu.RLock()
RLock(i) ==
    /\ calls[i].pc = "rlock"
    /\ CanRLock(mu)
    /\ mu' = [mu EXCEPT !.r = @ \cup {i}]
    /\ calls' = [calls EXCEPT ![i].pc = "read"]
    /\ UNCHANGED <<modules, completed>>
    /\ UNCHANGED <<chainVars, aliasVars, futVars, parVars, matchVars>>

\* mod, ok := c.modules[name]
Load(i) ==
    /\ calls[i].pc = "read"
    /\ calls' = [calls EXCEPT ![i].pc = "runlock",
                              ![i].ret = MapLoad(modules, calls[i].key)]
    /\ UNCHANGED <<modules, mu, completed>>
    /\ UNCHANGED <<chainVars, aliasVars, futVars, parVars, matchVars>>

\* The deferred c.mu.RUnlock(); Resolve returns (mod, ok).  expect is the entry
\* of the Register of this key that returned last before this return.
RUnlock(i) ==
    /\ calls[i].pc = "runlock"
    /\ mu' = [mu EXCEPT !.r = @ \ {i}]
    /\ calls' = [calls EXCEPT ![i].pc = "done",
                              ![i].expect = completed[calls[i].key]]
    /\ UNCHANGED <<modules, completed>>
    /\ UNCHANGED <<chainVars, aliasVars, futVars, parVars, matchVars>>

NextRegistry ==
    \/ CallRegister
    \/ CallResolve
    \/ \E i \in DOMAIN calls : Lock(i)
    \/ \E i \in DOMAIN calls : Store(i)
    \/ \E i \in DOMAIN calls : Unlock(i)
    \/ \E i \in DOMAIN calls : RLock(i)
    \/ \E i \in DOMAIN calls : Load(i)
    \/ \E i \in DOMAIN calls : RUnlock(i)

SpecRegistry == InitRegistry /\ [][NextRegistry]_vars

----------------------------------------------------------------------------
(* Pattern matching.  A value of type interface{} is a record of its dynamic
   type and its contents: an int, or a slice with its element type. *)

IntV(n) == [t |-> "int", n |-> n, elems |-> <<>>]

SliceV(t, elems) == [t |-> t, n |-> 0, elems |-> elems]

\* The nil interface{} Lookup returns for an unbound key.
NilV == [t |-> "nil", n |-> 0, elems |-> <<>>]

MatchInts == {1, 2}

\* []int{..} of up to two elements.
IntSlices ==
    {SliceV("[]int", <<>>)}
    \cup {SliceV("[]int", <<IntV(a)>>) : a \in MatchInts}
    \cup {SliceV("[]int", <<IntV(a), IntV(b)>>) : a \in MatchInts, b \in MatchInts}

MatchValues == {IntV(a) : a \in MatchInts} \cup IntSlices

\* Values the caller binds with Extend.
BoundValues == {IntV(a) : a \in MatchInts} \cup {SliceV("[]interface {}", <<IntV(2)>>)}

MatchNames == {"x", "y"}

\* Patterns: Literal[int]{lit}, Var{name}, Pin{name}, Cons{head, tail}, Wildcard{}.
Literal(lit) == [k |-> "Literal", lit |-> lit, name |-> "", head |-> <<>>, tail |-> <<>>]

Var(name) == [k |-> "Var", lit |-> 0, name |-> name, head |-> <<>>, tail |-> <<>>]

Pin(name) == [k |-> "Pin", lit |-> 0, name |-> name, head |-> <<>>, tail |-> <<>>]

Cons(head, tail) ==
    [k |-> "Cons", lit |-> 0, name |-> "", head |-> <<head>>, tail |-> <<tail>>]

Wildcard == [k |-> "Wildcard", lit |-> 0, name |-> "", head |-> <<>>, tail |-> <<>>]

LeafPatterns == {Literal(1), Var("x"), Var("y"), Pin("x"), Wildcard}

ConsPatterns == {Cons(hd, tl) : hd \in LeafPatterns, tl \in LeafPatterns}

Patterns ==
    LeafPatterns \cup ConsPatterns
    \cup {Cons(hd, tl) : hd \in LeafPatterns, tl \in ConsPatterns}

\* NewEnv(): no parent, an empty map.
NewEnv == [parent |-> 0, bindings |-> {}]

\* e.Extend(key, value): a new Env whose parent is e; e is not written.
EnvExtend(h, e, key, value) ==
    [envs |-> Append(h, [parent |-> e, bindings |-> {<<key, value>>}]),
     env  |-> Len(h) + 1]

\* e.Lookup(key)
RECURSIVE Lookup(_, _, _)
Lookup(h, e, key) ==
    IF \E b \in h[e].bindings : b[1] = key
    THEN [val |-> (CHOOSE b \in h[e].bindings : b[1] = key)[2], ok |-> TRUE]
    ELSE IF h[e].parent # 0
         THEN Lookup(h, h[e].parent, key)
         ELSE [val |-> NilV, ok |-> FALSE]

\* Variant: any two values are taken for equal.
DeepEqualAlways(a, b) == TRUE

\* reflect.DeepEqual on two interface{} values: same dynamic type, same contents.
DeepEqual(a, b) == a = b

\* Variant: a failed tail leaves the head's environment in the result.
ConsTailFailedKeepingHead(e, newEnv) == newEnv

\* Line 128: the environment Cons.Match returns when its tail does not match.
ConsTailFailed(e, newEnv) == e

\* What Match returns (ok, env, err), and the Env objects after the call.
MatchResult(ok, e, err, h) == [ok |-> ok, env |-> e, err |-> err, envs |-> h]

\* p.Match(value, env)
RECURSIVE Match(_, _, _, _)
Match(p, value, e, h) ==
    CASE p.k = "Literal" ->
            IF value.t # "int"
            THEN MatchResult(FALSE, e, <<"Literal: type mismatch">>, h)
            ELSE IF value.n = p.lit
                 THEN MatchResult(TRUE, e, NoErr, h)
                 ELSE MatchResult(FALSE, e, <<"Literal: does not equal">>, h)
      [] p.k = "Var" ->
            LET old == Lookup(h, e, p.name)
            IN IF old.ok
               THEN IF DeepEqual(old.val, value)
                    THEN MatchResult(TRUE, e, NoErr, h)
                    ELSE MatchResult(FALSE, e, <<"Var: already bound">>, h)
               ELSE LET x == EnvExtend(h, e, p.name, value)
                    IN MatchResult(TRUE, x.env, NoErr, x.envs)
      [] p.k = "Pin" ->
            LET old == Lookup(h, e, p.name)
            IN IF ~old.ok
               THEN MatchResult(FALSE, e, <<"Pin: not bound">>, h)
               ELSE IF DeepEqual(old.val, value)
                    THEN MatchResult(TRUE, e, NoErr, h)
                    ELSE MatchResult(FALSE, e, <<"Pin: does not match">>, h)
      [] p.k = "Cons" ->
            IF value.t \notin {"[]int", "[]interface {}"}
            THEN MatchResult(FALSE, e, <<"Cons: value is not a slice or array">>, h)
            ELSE IF Len(value.elems) = 0
            THEN MatchResult(FALSE, e, <<"Cons: empty list cannot match">>, h)
            ELSE LET hd == Match(p.head[1], value.elems[1], e, h)
                 IN IF ~hd.ok
                    THEN MatchResult(FALSE, e, <<"Cons: head match failed">> \o hd.err,
                                     hd.envs)
                    ELSE LET rest == SliceV("[]interface {}", Tail(value.elems))
                             tl == Match(p.tail[1], rest, hd.env, hd.envs)
                         IN IF ~tl.ok
                            THEN MatchResult(FALSE, ConsTailFailed(e, hd.env),
                                             <<"Cons: tail match failed">> \o tl.err,
                                             tl.envs)
                            ELSE MatchResult(TRUE, tl.env, NoErr, tl.envs)
      [] p.k = "Wildcard" -> MatchResult(TRUE, e, NoErr, h)

\* env := NewEnv()
InitMatch ==
    /\ ChainIdle /\ AliasIdle /\ FutIdle /\ ParIdle /\ RegIdle
    /\ envs = <<NewEnv>>
    /\ scope = 1
    /\ mcall = <<>>

\* env = env.Extend(key, value)
DoExtend ==
    \E key \in MatchNames, value \in BoundValues :
        /\ mcall = <<>>
        /\ Len(envs) < MaxEnvs
        /\ LET x == EnvExtend(envs, scope, key, value)
           IN envs' = x.envs /\ scope' = x.env
        /\ UNCHANGED mcall
        /\ UNCHANGED <<chainVars, aliasVars, futVars, parVars, regVars>>

\* ok, newEnv, err := p.Match(value, env)
DoMatch ==
    \E p \in Patterns, value \in MatchValues :
        /\ mcall = <<>>
        /\ LET r == Match(p, value, scope, envs)
           IN /\ mcall' = <<[pat |-> p, value |-> value, env |-> scope,
                             before |-> envs, ok |-> r.ok, newEnv |-> r.env,
                             err |-> r.err]>>
              /\ envs' = r.envs
        /\ UNCHANGED scope
        /\ UNCHANGED <<chainVars, aliasVars, futVars, parVars, regVars>>

NextMatch == DoExtend \/ DoMatch

SpecMatch == InitMatch /\ [][NextMatch]_vars

----------------------------------------------------------------------------
(* Properties *)

\* The last call was a Bind.
BindCalled == last.op = "Bind"

\* The last call was a Bind that called its step and combined the step's chain.
BindCombined == BindCalled /\ last.invoked /\ last.next[1].err = NoErr

\* The last call was a Bind whose step returned a chain carrying an error.
BindStepErr == BindCalled /\ last.invoked /\ last.next[1].err # NoErr

\* The last call was a Run.
RunCalled == last.op = "Run"

\* All fields but err are those of the receiver.
SameButErr == /\ m.value = prev.value
              /\ m.effects = prev.effects
              /\ m.contractFn = prev.contractFn
              /\ m.stateFn = prev.stateFn
              /\ m.deps = prev.deps

\* C1: Bind on a chain without terminal error whose value fails its contract
\* does not invoke the step and returns the receiver with the before-bind
\* contract violation as terminal error, every other field unchanged.
C1_ViolationSkipsStep ==
    (BindCalled /\ prev.err = NoErr /\ ~Holds(prev.contractFn, prev.value)) =>
        /\ ~last.invoked
        /\ last.next = <<>>
        /\ m.err = ErrBeforeBind
        /\ SameButErr

C1_Witness ==
    /\ BindCalled /\ prev.err = NoErr /\ ~Holds(prev.contractFn, prev.value)
    /\ prev.effects # <<>>
    /\ m.err = ErrBeforeBind

\* C2: a Bind on a chain whose terminal error is set invokes no step and
\* returns the chain unchanged; no Bind, WithEffect or WithContract turns a
\* set terminal error back into the empty one (it stays the same error).
C2_ErrorSticky ==
    /\ (BindCalled /\ prev.err # NoErr) => (~last.invoked /\ m = prev)
    /\ prev.err # NoErr => m.err = prev.err

C2_Witness ==
    /\ BindCalled /\ prev.err # NoErr
    /\ Holds(prev.contractFn, prev.value)
    /\ m = prev
    /\ nops >= 3

\* C3: Run returns the chain's value and effects and the final state; its
\* error is the final contract violation when the current contract rejects
\* the current value (terminal error set or not), else the terminal error,
\* which is empty exactly when none was set.
C3_RunResult ==
    RunCalled =>
        LET r == out[1] IN
        /\ r.value = m.value
        /\ r.effects = m.effects
        /\ r.state = ApplyStateFn(m.stateFn, last.init[1])
        /\ ~Holds(m.contractFn, m.value) => r.err = ErrFinal
        /\ Holds(m.contractFn, m.value) =>
              (r.err = m.err /\ (r.err = NoErr <=> m.err = NoErr))

C3_Witness ==
    /\ RunCalled
    /\ m.err # NoErr
    /\ ~Holds(m.contractFn, m.value)
    /\ out[1].err = ErrFinal

\* C4: when the step returns a chain carrying a terminal error, Bind returns
\* the receiver with an error wrapping that error; value, contract, effects,
\* state transform and deps are the receiver's, nothing of the step's chain
\* is carried forward.
C4_StepErrorWrapped ==
    BindStepErr =>
        /\ Len(m.err) > 1
        /\ Tail(m.err) = last.next[1].err
        /\ SameButErr

C4_Witness ==
    /\ BindStepErr
    /\ last.next[1].value # prev.value
    /\ last.next[1].contractFn # prev.contractFn
    /\ last.next[1].effects # <<>>
    /\ last.next[1].deps # prev.deps
    /\ m.value = prev.value

ContractThenBinds == form \in {"firstbind", "binds"}

\* C6: in Return(v).WithContract(p).Bind(f1)...Bind(fk) the contract p
\* validates every step: when the value a step produced fails p, the next
\* Bind does not invoke its step, and Run reports an error.
C6_ContractValidatesEveryStep ==
    /\ (BindCalled /\ form = "binds" /\ ~Holds(p0, prev.value)) => ~last.invoked
    /\ (RunCalled /\ ContractThenBinds /\ ~Holds(p0, m.value)) => out[1].err # NoErr

C8_DepsThreaded ==
    /\ BindCalled => m.deps = prev.deps
    /\ m.deps = deps0
    /\ (BindCalled /\ last.invoked) => last.arg[1].deps = deps0

C8_Witness ==
    /\ BindCombined
    /\ last.next[1].deps # deps0
    /\ m.deps = deps0
    /\ ncalls >= 2

\* The transforms fs applied to s one after the other, the first one first.
RECURSIVE ApplyInOrder(_, _)
ApplyInOrder(fs, s) ==
    IF fs = <<>> THEN s ELSE ApplyInOrder(Tail(fs), ApplyStateFn(Head(fs), s))

\* C9: after a combining Bind the chain's state transform applies the
\* receiver's transform first and the step chain's second; Run returns the
\* composed transform applied to the initial state, also with an error.
C9_StateFnSequenced ==
    /\ BindCombined =>
          \A k \in InitCounters :
              ApplyStateFn(m.stateFn, NewStateLayer(k)) =
                  ApplyStateFn(last.next[1].stateFn,
                               ApplyStateFn(prev.stateFn, NewStateLayer(k)))
    /\ RunCalled => out[1].state = ApplyInOrder(transforms, last.init[1])

C9_Witness ==
    /\ RunCalled
    /\ out[1].err # NoErr
    /\ Len(transforms) = 2
    /\ transforms[1] = ResetFn
    /\ transforms[2] = IncrementFn
    /\ out[1].state = NewStateLayer(1)

\* C10 as stated: for Return(v).WithContract(p).Bind(f) with p(v) false, f is
\* not invoked and Run returns v with the before-bind violation that Bind
\* recorded.
C10_RunReturnsBeforeBindViolation ==
    /\ (BindCalled /\ form = "firstbind" /\ ~Holds(p0, v0)) =>
          (~last.invoked /\ ncalls = 0)
    /\ (RunCalled /\ form = "firstbind" /\ ~Holds(p0, v0)) =>
          (out[1].value = v0 /\ out[1].err = ErrBeforeBind)

\* C10 amended: for Return(v).WithContract(p).Bind(f) with p(v) false, f is
\* not invoked and the chain records the before-bind violation; Run returns v
\* with the final contract violation, the recorded error staying in the chain.
C10_RunReturnsFinalViolation ==
    /\ (BindCalled /\ form = "firstbind" /\ ~Holds(p0, v0)) =>
          (~last.invoked /\ ncalls = 0 /\ m.value = v0 /\ m.err = ErrBeforeBind)
    /\ (RunCalled /\ form = "firstbind" /\ ~Holds(p0, v0)) =>
          /\ ncalls = 0
          /\ out[1].value = v0
          /\ out[1].err = ErrFinal
          /\ m.err = ErrBeforeBind

C10_Witness ==
    /\ RunCalled /\ form = "firstbind"
    /\ v0 = -1 /\ p0 = "nonneg"
    /\ ncalls = 0
    /\ out[1].value = -1
    /\ out[1].err = ErrFinal

\* C12 as stated: once the terminal error is set, neither Bind nor Run
\* evaluates the contract predicate or calls a step function.
C12_NoEvaluationAfterError ==
    (prev.err # NoErr /\ (BindCalled \/ RunCalled)) =>
        (~last.evaluated /\ ~last.invoked)

\* C12 amended: once the terminal error is set, no Bind evaluates the contract
\* predicate or calls a step function; Run calls no step function but still
\* evaluates the contract predicate, and reports the final contract violation
\* when the predicate rejects the value.
C12_OnlyRunEvaluatesAfterError ==
    /\ (prev.err # NoErr /\ BindCalled) => (~last.evaluated /\ ~last.invoked)
    /\ (prev.err # NoErr /\ RunCalled) =>
          /\ ~last.invoked
          /\ last.evaluated
          /\ ~Holds(prev.contractFn, prev.value) => out[1].err = ErrFinal

C12_Witness ==
    /\ RunCalled
    /\ prev.err # NoErr
    /\ last.evaluated
    /\ steps # <<>>
    /\ out[1].err = ErrFinal

TwoPlainStepsRun ==
    /\ RunCalled
    /\ form = "binds"
    /\ Len(steps) = 2
    /\ Holds(p0, v0)
    /\ steps[1].shape = "plain"
    /\ steps[2].shape = "plain"

\* C14: for Return(v, deps).WithContract(p).Bind(f1).Bind(f2) with p(v) true
\* and fi returning Return(gi(x), deps).WithEffect(ei), Run returns the value
\* g2(g1(v)), the effects <<e1, e2>> and no error; 10, +10, *2 gives 40.
C14_TwoStepChain ==
    TwoPlainStepsRun =>
        /\ out[1].value = NewValue(steps[2].fn, NewValue(steps[1].fn, v0))
        /\ out[1].effects = <<StepEffect(steps[1].fn), StepEffect(steps[2].fn)>>
        /\ out[1].err = NoErr
        /\ (v0 = 10 /\ steps[1].fn = "AddTen" /\ steps[2].fn = "MulTwo") =>
              out[1].value = 40

C14_Witness ==
    /\ TwoPlainStepsRun
    /\ v0 = 10
    /\ p0 = "nonneg"
    /\ steps[1].fn = "AddTen"
    /\ steps[2].fn = "MulTwo"
    /\ out[1].value = 40
    /\ out[1].effects = <<"Added 10 to the value", "Multiplied the value by 2">>

\* C15: the chain Return(value, deps) yields has the identity state
\* transform, no effects, a contract true of every value and no terminal
\* error; Run(s) on it returns (value, s, no effects, no error).
C15_ReturnFresh ==
    /\ form = "fresh" =>
          /\ m.value = v0 /\ m.deps = deps0
          /\ m.effects = <<>>
          /\ m.err = NoErr
          /\ \A v \in InitValues : Holds(m.contractFn, v)
          /\ \A k \in InitCounters :
                ApplyStateFn(m.stateFn, NewStateLayer(k)) = NewStateLayer(k)
    /\ (form = "fresh" /\ RunCalled) =>
          out[1] = [value |-> v0, state |-> last.init[1], effects |-> <<>>,
                    err |-> NoErr]

C15_Witness ==
    /\ form = "fresh" /\ RunCalled
    /\ v0 = -1
    /\ last.init[1] = NewStateLayer(3)
    /\ out[1].state = NewStateLayer(3)
    /\ out[1].err = NoErr

\* All fields but effects are those of the receiver.
SameButEffects == /\ m.value = prev.value
                  /\ m.contractFn = prev.contractFn
                  /\ m.err = prev.err
                  /\ m.stateFn = prev.stateFn
                  /\ m.deps = prev.deps

\* C16: WithEffect(e) returns the receiver with e appended as last element of
\* the effect queue and every other field unchanged, also when the receiver
\* carries a terminal error; no effect is executed.
C16_WithEffectAppends ==
    /\ last.op = "WithEffect" =>
          /\ m.effects = Append(prev.effects, last.arg[1])
          /\ SameButEffects
    /\ stdout = <<>>

C16_Witness ==
    /\ last.op = "WithEffect"
    /\ prev.err # NoErr
    /\ prev.effects # <<>>
    /\ m.effects[Len(m.effects)] = "caller log"

\* C17: WithContract(p) returns the receiver with p as contract and every
\* other field unchanged; p is not evaluated, so a contract the current value
\* violates leaves the terminal error empty.
C17_WithContractLazy ==
    last.op = "WithContract" =>
        /\ m.contractFn = last.arg[1]
        /\ m.value = prev.value
        /\ m.effects = prev.effects
        /\ m.err = prev.err
        /\ m.stateFn = prev.stateFn
        /\ m.deps = prev.deps
        /\ ~last.evaluated
        /\ ~last.invoked

C17_Witness ==
    /\ last.op = "WithContract"
    /\ ~Holds(m.contractFn, m.value)
    /\ prev.contractFn # m.contractFn
    /\ m.err = NoErr

\* C11: chains are immutable. For a chain c and two chains derived from c one
\* after the other (by c.WithEffect(e) or c.Bind(f)), the effects Run returns
\* for c and for the first derived chain are the same after the second
\* derivation as before it.
C11_DerivationsIndependent ==
    derived2 # <<>> =>
        /\ RunEffects(arrays, base) = before[1].base
        /\ RunEffects(arrays, derived1[1]) = before[1].derived1

\* C18: the producing goroutine of a future performs exactly one send over
\* both channels: never one on each, never a second on either, and once the
\* goroutine has ended never none; the channel is the error channel exactly
\* when fn returned an error.
C18_ExactlyOneWrite ==
    \A f \in FutureIds :
        /\ fut[f].writes.result + fut[f].writes.err <= 1
        /\ fut[f].state = "done" =>
              /\ fut[f].writes.result + fut[f].writes.err = 1
              /\ fut[f].writes.err = 1 <=> fut[f].outcome[1].err # NoErr

C18_Witness ==
    \E f, g \in FutureIds :
        /\ fut[f].state = "done" /\ fut[g].state = "done"
        /\ fut[f].outcome[1].res = 7
        /\ fut[f].writes = [result |-> 0, err |-> 1]
        /\ fut[g].writes = [result |-> 1, err |-> 0]

\* C19: the producing goroutine never blocks on its send: once fn has
\* returned, the goroutine sends and ends, whether or not Await is ever called.
C19_ProducerNeverBlocks ==
    \A f \in FutureIds : (fut[f].state = "returned") ~> (fut[f].state = "done")

C19_Witness ==
    /\ awaits = <<>>
    /\ \A f \in FutureIds : fut[f].state = "done"
    /\ \E f \in FutureIds : fut[f].errChan = <<<<"boom">>>>
    /\ \E f \in FutureIds : fut[f].resultChan = <<42>>

\* What Await returns for the outcome o of fn.
AwaitReturns(o) ==
    IF o.err = NoErr THEN [res |-> o.res, err |-> NoErr]
    ELSE [res |-> Zero, err |-> o.err]

\* awaits[i] is the first Await called on its future.
FirstAwait(i) == \A j \in 1..(i - 1) : awaits[j].fut # awaits[i].fut

\* C20: the first Await on a future does not return before the producer has
\* written; it then returns (v, nil) when fn returned (v, nil), and (zero, err)
\* when fn returned a non-nil err, whatever value fn returned with it.
C20_FirstAwait ==
    \A i \in DOMAIN awaits :
        FirstAwait(i) =>
            LET a  == awaits[i]
                fu == fut[a.fut]
            IN /\ a.pc = "returned" =>
                     /\ HasWritten(fu)
                     /\ a.ret[1] = AwaitReturns(fu.outcome[1])
               /\ (a.pc = "waiting" /\ HasWritten(fu)
                      /\ \A j \in DOMAIN awaits :
                            awaits[j].fut = a.fut => awaits[j].pc = "waiting")
                     => (fu.resultChan # <<>> \/ fu.errChan # <<>>)

C20_Witness ==
    /\ Len(awaits) >= 1
    /\ awaits[1].pc = "returned"
    /\ awaits[1].early
    /\ awaits[1].ret[1] = [res |-> Zero, err |-> <<"boom">>]
    /\ fut[awaits[1].fut].outcome[1].res = 7

\* The Await calls on future f that have returned.
ReturnedAwaits(f) ==
    {i \in DOMAIN awaits : awaits[i].fut = f /\ awaits[i].pc = "returned"}

\* C21: for one future at most one Await ever returns, whoever calls it (a
\* caller, the goroutine of future.Bind or Then, FromFuture): the item the
\* producer wrote stays in its channel until one Await receives it, and from
\* then on both channels are empty and the producer has ended, so every other
\* Await on that future remains blocked.
C21_OneAwaitReturns ==
    \A f \in FutureIds :
        /\ Cardinality(ReturnedAwaits(f)) <= 1
        /\ (HasWritten(fut[f]) /\ ReturnedAwaits(f) = {}) =>
              Len(fut[f].resultChan) + Len(fut[f].errChan) = 1
        /\ ReturnedAwaits(f) # {} =>
              /\ fut[f].resultChan = <<>> /\ fut[f].errChan = <<>>
              /\ fut[f].state = "done" /\ fut[f].pending = <<>>

C21_Witness ==
    /\ Len(awaits) = 2
    /\ awaits[1].fut = awaits[2].fut
    /\ awaits[1].by = "bind"
    /\ awaits[1].pc = "waiting"
    /\ awaits[2].by = "caller"
    /\ awaits[2].pc = "returned"

\* What the Await inside FromFuture returned, once FromFuture has returned.
LiftedRet ==
    LET i == CHOOSE j \in DOMAIN awaits :
                 awaits[j].by = "adapter" /\ awaits[j].pc = "returned"
    IN awaits[i].ret[1]

\* FromFuture has returned, for a future whose producer returned an error.
LiftedFailure == form \in {"lifted", "liftedbinds", "other"} /\ LiftedRet.err # NoErr

\* FromFuture has returned, for a future that resolved to a value.
LiftedSuccess == form \in {"lifted", "liftedbinds", "other"} /\ LiftedRet.err = NoErr

\* C22: for a future whose producer returns an error, FromFuture returns a
\* chain with the zero value, a contract that rejects every value, no terminal
\* error and one effect recording the future's error; Run on that chain and on
\* every chain obtained from it by Bind and WithEffect reports the final
\* contract violation, and no step bound after it is invoked.
C22_FailedFutureLifted ==
    LiftedFailure =>
        /\ form = "lifted" =>
              /\ m.value = Zero
              /\ m.err = NoErr
              /\ m.effects = <<FutureErrorLog(LiftedRet.err)>>
              /\ m.deps = deps0
        /\ \A v \in InitValues \cup {Zero, 42, 126} : ~Holds(m.contractFn, v)
        /\ RunCalled => out[1].err = ErrFinal
        /\ (BindCalled /\ form # "lifted") => ~last.invoked
        /\ ncalls = 1

C22_Witness ==
    /\ LiftedFailure
    /\ RunCalled
    /\ nops = MaxOps
    /\ m.effects = <<"Future error: boom", "caller log">>
    /\ m.err = ErrBeforeBind
    /\ out[1].err = ErrFinal
    /\ out[1].value = Zero

\* C23: for a future that resolves to v, FromFuture returns a chain with value
\* v, a contract true of every value, no effects and no error; binding a step
\* g of the form Return(g(x), deps).WithEffect(e) and running returns g(v) and
\* no error (42 bound with *3 gives 126).
C23_ResolvedFutureLifted ==
    LiftedSuccess =>
        /\ form = "lifted" =>
              /\ m.value = LiftedRet.res
              /\ m.err = NoErr
              /\ m.effects = <<>>
              /\ m.deps = deps0
              /\ \A v \in InitValues \cup {Zero, 42, 126} : Holds(m.contractFn, v)
        /\ (RunCalled /\ form = "liftedbinds" /\ Len(steps) = 2
                /\ steps[2].shape = "plain") =>
              /\ out[1].value = NewValue(steps[2].fn, LiftedRet.res)
              /\ out[1].err = NoErr
              /\ LiftedRet.res = 42 => out[1].value = 126

C23_Witness ==
    /\ LiftedSuccess
    /\ RunCalled
    /\ form = "liftedbinds"
    /\ Len(steps) = 2
    /\ steps[2] = [fn |-> "MulThree", shape |-> "plain"]
    /\ LiftedRet.res = 42
    /\ out[1].value = 126
    /\ out[1].err = NoErr

\* The children whose Run returned an error.
FailedChildren == {i \in ChildIds : task[i].pc # "start" /\ task[i].err # NoErr}

\* C24: whatever the order in which the goroutines complete, the value of the
\* chain Parallel returns is a slice of length N whose element i is the value
\* chains[i].Run returned; children wrapping 1, 2, 3 give [1, 2, 3].
C24_ResultsByIndex ==
    pchain # <<>> =>
        LET v == pchain[1].value
        IN /\ ~v.isnil
           /\ Len(v.elems) = MaxChildren
           /\ \A i \in ChildIds :
                 /\ v.elems[i] = task[i].res
                 /\ v.elems[i] = comps[i].value
           /\ (\A i \in ChildIds : comps[i].value = i) =>
                 v.elems = [i \in ChildIds |-> i]
           /\ pout # <<>> => pout[1].result.value = v

C24_Witness ==
    /\ pout # <<>>
    /\ pout[1].result.value.elems = <<1, 2, 3>>
    /\ merged[1].totalEffects =
          <<"Parallel composite 3", "Parallel composite 1", "Parallel composite 2">>

\* C25: when several children fail, the error Parallel retains, and reports
\* in its summary effect, is that of the failing child with the lowest index,
\* whatever the order in which the goroutines complete.
C25_FirstErrorByIndex ==
    (merged # <<>> /\ FailedChildren # {}) =>
        LET lowest == CHOOSE i \in FailedChildren :
                          \A j \in FailedChildren : i <= j
        IN /\ merged[1].firstErr = task[lowest].err
           /\ pchain[1].effects[Len(pchain[1].effects)] =
                 "Parallel composite error: " \o ErrText(task[lowest].err)

\* The effect queues of children i..N, one after the other.
RECURSIVE ChildEffectsFrom(_)
ChildEffectsFrom(i) ==
    IF i > MaxChildren THEN <<>> ELSE comps[i].effects \o ChildEffectsFrom(i + 1)

\* C26: the effect queue of the chain Parallel returns is the children's
\* effect queues in index order followed by one summary effect, whether or
\* not a child failed.
C26_EffectsByIndex ==
    pchain # <<>> =>
        /\ Len(pchain[1].effects) = Len(ChildEffectsFrom(1)) + 1
        /\ SubSeq(pchain[1].effects, 1, Len(ChildEffectsFrom(1))) = ChildEffectsFrom(1)

\* C27: every child is run with a fresh state whose counter is 0, whatever
\* the other children did and whatever state the combined chain is run with
\* later; no child's final state reaches another child or the caller.
C27_FreshChildState ==
    /\ \A i \in ChildIds :
          task[i].pc # "start" =>
              /\ task[i].init = NewStateLayer(0)
              /\ task[i].final = ApplyStateFn(comps[i].stateFn, NewStateLayer(0))
    /\ pout # <<>> => pout[1].result.state = pout[1].init

C27_Witness ==
    /\ pout # <<>>
    /\ pout[1].init = NewStateLayer(3)
    /\ pout[1].result.state = NewStateLayer(3)
    /\ task[1].final = NewStateLayer(1)
    /\ task[2].final = NewStateLayer(1)
    /\ task[3].final = NewStateLayer(0)

\* C28: Parallel merges only after all N goroutines have completed, and it
\* always gets there: no goroutine finds its channel full, the counter of the
\* WaitGroup is N minus the number of completed goroutines and Wait returns
\* at zero, and Parallel returns its chain.
C28_JoinThenMerge ==
    /\ [](\A i \in ChildIds :
             /\ task[i].pc = "start" => Len(errCh) < MaxChildren
             /\ task[i].pc = "wrote" => Len(effCh) < MaxChildren)
    /\ [](wg = Cardinality({i \in ChildIds : task[i].pc # "done"}))
    /\ [](pmain # "waiting" => \A i \in ChildIds : task[i].pc = "done")
    /\ <>(pchain # <<>>)

C28_Witness ==
    /\ pmain = "merged"
    /\ pchain # <<>>
    /\ wg = 0
    /\ merged[1].unfinished = {}
    /\ FailedChildren = {2}

\* C29: goroutine i writes element i of results and nothing else, once; no
\* element is written by two goroutines; the caller reads results only after
\* the join, when every write has been made.
C29_DisjointSlots ==
    /\ \A k \in ChildIds :
          /\ Len(slots[k]) <= 1
          /\ \A w \in DOMAIN slots[k] :
                slots[k][w].by = k /\ ~slots[k][w].joined
          /\ task[k].pc \in {"wrote", "sent", "done"} => Len(slots[k]) = 1
    /\ merged # <<>> =>
          /\ merged[1].unfinished = {}
          /\ \A k \in ChildIds : Len(slots[k]) = 1

C29_Witness ==
    /\ merged # <<>>
    /\ \A k \in ChildIds : slots[k] = <<[by |-> k, joined |-> FALSE]>>
    /\ results = <<11, 2, -3>>

\* C30: the chain Parallel returns ends with exactly one summary effect: the
\* 'executed successfully' effect when no child's Run returned an error, an
\* effect describing a child's error when one did; its contract requires the
\* result slice to be non-nil.
C30_SummaryAndContract ==
    pchain # <<>> =>
        LET e == pchain[1].effects
            summaries ==
                {"Parallel composite executed successfully"} \cup
                {"Parallel composite error: " \o ErrText(task[i].err) :
                    i \in FailedChildren}
        IN /\ Len(e) >= 1
           /\ Cardinality({k \in DOMAIN e : e[k] \in summaries}) = 1
           /\ IF FailedChildren = {}
              THEN e[Len(e)] = "Parallel composite executed successfully"
              ELSE \E i \in FailedChildren :
                      e[Len(e)] = "Parallel composite error: " \o ErrText(task[i].err)
           /\ ~Holds(pchain[1].contractFn, NilResults)
           /\ Holds(pchain[1].contractFn, SliceOf(<<>>))
           /\ Holds(pchain[1].contractFn, pchain[1].value)

C30_Witness ==
    /\ pchain # <<>>
    /\ FailedChildren = {1, 3}
    /\ pchain[1].effects[Len(pchain[1].effects)] =
          "Parallel composite error: final contract violation"
    /\ pchain[1].contractFn = "nonnull"

\* C31: Parallel called with an empty batch does not return a chain: it faults
\* on the first element's dependency context, before any task is launched.
C31_EmptyBatchFaults ==
    (pmain # "idle" /\ Len(comps) = 0) =>
        /\ pmain = "faulted"
        /\ pchain = <<>>
        /\ pout = <<>>
        /\ task = <<>>
        /\ wg = 0
        /\ errCh = <<>> /\ effCh = <<>>

C31_Witness == pmain = "faulted" /\ Len(comps) = 0

\* The calls between Lock and Unlock, and those between RLock and RUnlock.
Writing == {i \in DOMAIN calls : calls[i].pc \in {"write", "unlock"}}

Reading == {i \in DOMAIN calls : calls[i].pc \in {"read", "runlock"}}

\* C32: Resolve(k) returns the module of the Register(k, m) that completed
\* last, with true, and (nil, false) when no Register(k, ..) has completed; under
\* every interleaving no Resolve is reading while a Register holds the map for
\* writing and no two Registers hold it at once.
C32_RegistryGuarded ==
    /\ Cardinality(Writing) <= 1
    /\ Writing # {} => Reading = {}
    /\ \A i \in DOMAIN calls :
          calls[i].op = "Resolve" =>
            /\ calls[i].pc = "runlock" => calls[i].ret = completed[calls[i].key]
            /\ calls[i].pc = "done" =>
                  /\ calls[i].ret = calls[i].expect
                  /\ (\A j \in DOMAIN calls :
                         ~(calls[j].op = "Register" /\ calls[j].key = calls[i].key))
                      => calls[i].ret = [mod |-> Nil, ok |-> FALSE]

\* Two Resolves hold the mutex for reading at once, after a Register has
\* returned, and one of them has found a module.
C32_Witness ==
    /\ Cardinality(Reading) >= 2
    /\ \E i \in Reading, j \in DOMAIN calls :
          /\ calls[i].pc = "runlock"
          /\ calls[i].ret.ok
          /\ calls[j].op = "Register" /\ calls[j].pc = "done"

\* The Match call made was Var{Name}.Match(value, env).
VarMatched == mcall # <<>> /\ mcall[1].pat.k = "Var"

\* Name was bound in env to a value other than the one matched.
BoundOtherwise ==
    LET c1 == mcall[1]
        old == Lookup(c1.before, c1.env, c1.pat.name)
    IN old.ok /\ old.val # c1.value

BoundFutures ==
    {g \in FutureIds : fut[g].via \in {"Bind", "Then"} /\ fut[g].outcome # <<>>}

\* What Bind(f, fn) has to resolve to when f resolved to o.
BoundExpected(fn, o) ==
    IF o.err # NoErr THEN [res |-> Zero, err |-> o.err]
    ELSE IF fn = "triple" THEN [res |-> 3 * o.res, err |-> NoErr]
    ELSE [res |-> o.res, err |-> <<"fn failed">>]

\* C34: the future of future.Bind(f, fn) resolves to fn's result on f's value
\* when f succeeds and to f's error, fn never invoked, when f fails; the future
\* of future.Then(f, g) resolves to g(value) without error, or to f's error.
C34_BoundFutureOutcome ==
    \A g \in BoundFutures :
        LET src == fut[fut[g].src]
            o   == src.outcome[1]
            want == BoundExpected(fut[g].fn, o)
        IN /\ src.outcome # <<>>
           /\ fut[g].outcome[1] = want
           /\ fut[g].fncalled = (o.err = NoErr)
           /\ (fut[g].via = "Then" /\ o.err = NoErr) => fut[g].outcome[1].err = NoErr
           /\ \A i \in DOMAIN awaits :
                 (awaits[i].fut = g /\ awaits[i].pc = "returned") =>
                     awaits[i].ret[1] =
                        IF want.err # NoErr THEN [res |-> Zero, err |-> want.err]
                        ELSE want

\* A future bound to a failed one has resolved and its Await has returned the
\* error of the source.
C34_Witness ==
    \E g \in BoundFutures, i \in DOMAIN awaits :
        /\ fut[fut[g].src].outcome[1].err # NoErr
        /\ fut[g].state = "done"
        /\ awaits[i].fut = g /\ awaits[i].pc = "returned"
        /\ awaits[i].ret[1].err = fut[fut[g].src].outcome[1].err

\* The children whose Run returned an error.
FailedTasks == {i \in DOMAIN task : task[i].err # NoErr}

\* C35: Run on the chain Parallel returned reports no error even when Runs of
\* children returned errors: the chain carries no terminal error, and a child's
\* error shows in the summary effect only.
C35_ChildErrorsNotTerminal ==
    /\ pchain # <<>> => pchain[1].err = NoErr
    /\ \A k \in DOMAIN pout :
          /\ pout[k].result.err = NoErr
          /\ pout[k].result.value = SliceOf(results)
          /\ FailedTasks # {} =>
                \E i \in FailedTasks :
                    pout[k].result.effects =
                        <<"Parallel composite error: " \o ErrText(task[i].err)>>

C35_Witness ==
    /\ pout # <<>>
    /\ Cardinality(FailedTasks) >= 2
    /\ pout[1].result.err = NoErr

\* C39: Parallel runs its batch during the call: when it returns, every child
\* has been run exactly once and every task has terminated; Runs of the chain
\* it returned, however many, run no child and launch no task.
C39_BatchRunsInsideCall ==
    /\ \A i \in DOMAIN task : task[i].nrun <= 1
    /\ pchain # <<>> =>
          /\ DOMAIN task = DOMAIN comps
          /\ \A i \in DOMAIN task : task[i].nrun = 1 /\ task[i].pc = "done"
          /\ merged[1].unfinished = {}
          /\ wg = 0
    /\ pout # <<>> => pchain # <<>>

\* The chain of a batch of two or more has been run three times.
C39_Witness ==
    /\ Len(pout) >= 3
    /\ Len(comps) >= 2
    /\ \A i \in DOMAIN task : task[i].nrun = 1

\* The Await calls made by the step of FromFuture.
AdapterAwaits == {i \in DOMAIN awaits : awaits[i].by = "adapter"}

\* FromFuture has returned and the Await of its step had returned an error.
LiftFailed ==
    /\ form # "zero"
    /\ \E i \in AdapterAwaits :
          awaits[i].pc = "returned" /\ awaits[i].ret[1].err # NoErr

\* C36: a failed future is not sticky: after FromFuture(failing, deps)
\* .WithContract(q), q true of the zero value, the chain has no terminal error,
\* Run returns the zero value and no error, and a step bound next is invoked
\* with the zero value.
C36_FailureNotSticky ==
    (LiftFailed /\ Holds(p0, Zero)) =>
        /\ form = "liftedcontract" =>
              /\ m.value = Zero
              /\ m.err = NoErr
              /\ RunCalled => (out[1].value = Zero /\ out[1].err = NoErr)
        /\ (form = "liftedcontractbind" /\ BindCalled) =>
              /\ last.invoked
              /\ last.arg[1].value = Zero

\* FromFuture(failing).WithContract(q).Run(s) has returned, without an error.
C36_Witness ==
    /\ LiftFailed
    /\ form = "liftedcontract"
    /\ p0 = "nonneg"
    /\ RunCalled
    /\ out[1].err = NoErr
    /\ out[1].effects = <<"Future error: boom">>

\* C38: FromFuture awaits at lift time: it calls Await exactly once and returns
\* only after that Await has returned what the future resolved to; Runs of the
\* lifted chain, however many, call no Await.
C38_AwaitAtLiftTime ==
    /\ Cardinality(AdapterAwaits) <= 1
    /\ form = "zero" => runs = <<>>
    /\ form # "zero" =>
          /\ Cardinality(AdapterAwaits) = 1
          /\ Len(awaits) = 1
          /\ \A i \in AdapterAwaits :
                /\ awaits[i].pc = "returned"
                /\ fut[awaits[i].fut].outcome # <<>>
                /\ fut[awaits[i].fut].state = "done"
                /\ LET o == fut[awaits[i].fut].outcome[1]
                   IN awaits[i].ret[1] =
                        IF o.err # NoErr THEN [res |-> Zero, err |-> o.err] ELSE o

\* The chain was run twice after a FromFuture that had to wait for the future.
C38_Witness ==
    /\ Len(runs) >= 2
    /\ Cardinality(AdapterAwaits) = 1
    /\ \A i \in AdapterAwaits : awaits[i].early /\ awaits[i].pc = "returned"

\* The initial states Run is called with in the model.
RunStates == {NewStateLayer(k) : k \in InitCounters}

\* C37: the state transform of every chain built with Return, Bind, WithEffect,
\* WithContract, FromFuture and Parallel is the identity: Run(s) returns s as
\* the final state, with or without an error.
C37_StateUntouched ==
    /\ \A s \in RunStates : ApplyStateFn(m.stateFn, s) = s
    /\ RunCalled => out[1].state = last.init[1]
    /\ \A i \in DOMAIN runs : runs[i].result.state = runs[i].init
    /\ pchain # <<>> => \A s \in RunStates : ApplyStateFn(pchain[1].stateFn, s) = s
    /\ \A k \in DOMAIN pout : pout[k].result.state = pout[k].init

\* A chain of two combined Binds was run from counter 3 and reported an error.
C37_Witness ==
    /\ RunCalled
    /\ Len(transforms) >= 2
    /\ out[1].err # NoErr
    /\ last.init[1] = NewStateLayer(3)
    /\ out[1].state = NewStateLayer(3)

====
